---- MODULE Spec2Model ----
(***************************************************************************)
(* A model of the quiz runtime: the conditional-logic evaluator and the    *)
(* answer validator (validation module), and the QuizEngine state machine  *)
(* (QuizEngine.ts).  JavaScript values are modelled with their type tags,  *)
(* strings as sequences of one-character strings, so that trimming,        *)
(* coercion and comparison are computed rather than assumed.               *)
(***************************************************************************)
EXTENDS Integers, Sequences, FiniteSets, TLC

VARIABLES quiz, config, state, questionOrder, eventHandlers, storage, timers,
          deliveries, now, call

vars ==
  <<quiz, config, state, questionOrder, eventHandlers, storage, timers,
    deliveries, now, call>>

(***************************************************************************)
(* Bounds of the model.                                                    *)
(***************************************************************************)
NumQuestions == 3
MaxTimers == 2
MaxDeliveries == 2
MaxDrift == 1
MaxHandlers == 2

(***************************************************************************)
(* JavaScript values.  t is the type tag; NaN is a value of type number.   *)
(***************************************************************************)
Undefined == [t |-> "undefined", n |-> 0, s |-> <<>>, a |-> <<>>]
Null == [t |-> "null", n |-> 0, s |-> <<>>, a |-> <<>>]
NaN == [t |-> "NaN", n |-> 0, s |-> <<>>, a |-> <<>>]
Num(k) == [t |-> "number", n |-> k, s |-> <<>>, a |-> <<>>]
Str(chars) == [t |-> "string", n |-> 0, s |-> chars, a |-> <<>>]
Arr(elems) == [t |-> "array", n |-> 0, s |-> <<>>, a |-> elems]

Digits == <<"0", "1", "2", "3", "4", "5", "6", "7", "8", "9">>

IsDigit(c) == \E i \in 1..10 : Digits[i] = c

DigitVal(c) == (CHOOSE i \in 1..10 : Digits[i] = c) - 1

IsSpace(c) == c = " "

RECURSIVE TrimStart(_)
TrimStart(chars) ==
  IF chars # <<>> /\ IsSpace(Head(chars)) THEN TrimStart(Tail(chars)) ELSE chars

RECURSIVE TrimEnd(_)
TrimEnd(chars) ==
  IF chars # <<>> /\ IsSpace(chars[Len(chars)])
  THEN TrimEnd(SubSeq(chars, 1, Len(chars) - 1))
  ELSE chars

Trim(chars) == TrimEnd(TrimStart(chars))

RECURSIVE NatToChars(_)
NatToChars(k) ==
  IF k < 10 THEN <<Digits[k + 1]>>
  ELSE NatToChars(k \div 10) \o <<Digits[(k % 10) + 1]>>

IntToChars(k) == IF k < 0 THEN <<"-">> \o NatToChars(0 - k) ELSE NatToChars(k)

RECURSIVE JoinChars(_)
RECURSIVE ToStringChars(_)
JoinChars(elems) ==
  IF elems = <<>> THEN <<>>
  ELSE IF Len(elems) = 1 THEN ToStringChars(Head(elems))
  ELSE ToStringChars(Head(elems)) \o <<",">> \o JoinChars(Tail(elems))

\* String(value)
ToStringChars(v) ==
  CASE v.t = "undefined" -> <<"u", "n", "d", "e", "f", "i", "n", "e", "d">>
    [] v.t = "null" -> <<"n", "u", "l", "l">>
    [] v.t = "NaN" -> <<"N", "a", "N">>
    [] v.t = "number" -> IntToChars(v.n)
    [] v.t = "string" -> v.s
    [] OTHER -> JoinChars([i \in 1..Len(v.a) |->
                  IF v.a[i].t \in {"undefined", "null"} THEN Str(<<>>) ELSE v.a[i]])

RECURSIVE DigitPrefix(_)
DigitPrefix(chars) ==
  IF chars # <<>> /\ IsDigit(Head(chars))
  THEN <<Head(chars)>> \o DigitPrefix(Tail(chars))
  ELSE <<>>

RECURSIVE CharsToNat(_)
CharsToNat(chars) ==
  IF chars = <<>> THEN 0
  ELSE CharsToNat(SubSeq(chars, 1, Len(chars) - 1)) * 10 + DigitVal(chars[Len(chars)])

\* parseFloat(chars): leading white space, an optional sign, the longest run
\* of digits; NaN when there is no digit (integers only).
ParseFloat(chars) ==
  LET body == TrimStart(chars)
      neg == body # <<>> /\ Head(body) = "-"
      rest == IF body # <<>> /\ Head(body) \in {"-", "+"} THEN Tail(body) ELSE body
      ds == DigitPrefix(rest)
  IN IF ds = <<>> THEN NaN
     ELSE Num(IF neg THEN 0 - CharsToNat(ds) ELSE CharsToNat(ds))

\* Number(chars) for a string: blank is 0, an optionally signed run of digits
\* is its value, anything else is NaN.
StringToNumber(chars) ==
  LET body == Trim(chars)
      neg == body # <<>> /\ Head(body) = "-"
      rest == IF body # <<>> /\ Head(body) \in {"-", "+"} THEN Tail(body) ELSE body
  IN IF body = <<>> THEN Num(0)
     ELSE IF rest # <<>> /\ DigitPrefix(rest) = rest
          THEN Num(IF neg THEN 0 - CharsToNat(rest) ELSE CharsToNat(rest))
          ELSE NaN

\* Number(value)
ToNumber(v) ==
  CASE v.t = "undefined" -> NaN
    [] v.t = "null" -> Num(0)
    [] v.t \in {"number", "NaN"} -> v
    [] OTHER -> StringToNumber(ToStringChars(v))

\* a === b; two arrays are equal only when they are the same object, which an
\* answer and a condition value never are.
StrictEquals(x, y) ==
  /\ x.t = y.t
  /\ x.t \notin {"NaN", "array"}
  /\ x = y

\* haystack.includes(needle) on strings
StringIncludes(hay, needle) ==
  \E i \in 1..(Len(hay) + 1) :
    /\ i + Len(needle) - 1 <= Len(hay)
    /\ SubSeq(hay, i, i + Len(needle) - 1) = needle

\* array.includes(x): SameValueZero, under which NaN is found
ArrayIncludes(elems, x) ==
  \E i \in 1..Len(elems) :
    \/ StrictEquals(elems[i], x)
    \/ (elems[i].t = "NaN" /\ x.t = "NaN")

NumLess(x, y) == x.t = "number" /\ y.t = "number" /\ x.n < y.n

NumLeq(x, y) == x.t = "number" /\ y.t = "number" /\ x.n <= y.n

(***************************************************************************)
(* Quiz definition.  A question carries the fields the validator and the   *)
(* evaluator read; required is "absent", "true" or "false"; a bound of 0   *)
(* and a pattern of "" stand for an absent optional field.                 *)
(***************************************************************************)
NoLogic == [present |-> FALSE, operator |-> "AND", conditions |-> <<>>]

Logic(op, conds) == [present |-> TRUE, operator |-> op, conditions |-> conds]

Condition(qid, op, v) == [questionId |-> qid, operator |-> op, value |-> v]

Question(id, type, req, logic) ==
  [id |-> id, type |-> type, required |-> req, conditionalDisplay |-> logic,
   min |-> 0, max |-> 0, minSelections |-> 0, maxSelections |-> 0,
   minLength |-> 0, maxLength |-> 0, validationPattern |-> "",
   label |-> "", options |-> <<>>, scoringCategory |-> "",
   positiveValue |-> Undefined, positiveLabel |-> <<>>, negativeLabel |-> <<>>,
   reverseCoded |-> FALSE, scalePoints |-> 0]

\* a score contribution; weight is Undefined when absent
ScoreContribution(category, value, weight) ==
  [category |-> category, value |-> value, weight |-> weight]

\* a choice option; letter and value are Undefined, the tags "" when absent
ChoiceOption(letter, text, value, scores, war, mask, archetype) ==
  [letter |-> letter, text |-> text, value |-> value, scores |-> scores,
   war |-> war, mask |-> mask, archetype |-> archetype]

\* a scoring category; maxScore 0 and thresholds <<>> when absent
Category(id, maxScore, thresholds) ==
  [id |-> id, maxScore |-> maxScore, thresholds |-> thresholds]

NoGroundZero == [present |-> FALSE, minCategories |-> 0, maxSpread |-> 0, minScore |-> 0]

\* the value getCurrentQuestion and getQuestion return for "no question"
NullQuestion == Question("", "null", "absent", NoLogic)

(***************************************************************************)
(* Timestamps: a Date object, or the ISO string JSON turns it into.        *)
(***************************************************************************)
NoDate == [kind |-> "undefined", ms |-> 0]
Date(ms) == [kind |-> "Date", ms |-> ms]
IsoString(ms) == [kind |-> "string", ms |-> ms]

EmptyMap == [k \in {} |-> Undefined]

\* state.answers[questionId]?.value
AnswerValue(st, questionId) ==
  IF questionId \in DOMAIN st.answers THEN st.answers[questionId].value ELSE Undefined

(***************************************************************************)
(* Conditional logic evaluation                                            *)
(***************************************************************************)
evaluateCondition(condition, st) ==
  LET answerValue == AnswerValue(st, condition.questionId)
      cv == condition.value
  IN CASE condition.operator = "equals" -> StrictEquals(answerValue, cv)
       [] condition.operator = "not-equals" -> ~StrictEquals(answerValue, cv)
       [] condition.operator = "contains" ->
            IF answerValue.t = "array" THEN ArrayIncludes(answerValue.a, cv)
            ELSE StringIncludes(ToStringChars(answerValue), ToStringChars(cv))
       [] condition.operator = "not-contains" ->
            IF answerValue.t = "array" THEN ~ArrayIncludes(answerValue.a, cv)
            ELSE ~StringIncludes(ToStringChars(answerValue), ToStringChars(cv))
       [] condition.operator = "greater-than" ->
            NumLess(ToNumber(cv), ToNumber(answerValue))
       [] condition.operator = "less-than" ->
            NumLess(ToNumber(answerValue), ToNumber(cv))
       [] condition.operator = "in-range" ->
            IF cv.t = "array" /\ Len(cv.a) = 2
            THEN LET num == ToNumber(answerValue)
                 IN NumLeq(ToNumber(cv.a[1]), num) /\ NumLeq(num, ToNumber(cv.a[2]))
            ELSE FALSE
       [] OTHER -> FALSE

evaluateConditions(logic, st) ==
  LET results == [i \in 1..Len(logic.conditions) |->
                    evaluateCondition(logic.conditions[i], st)]
  IN IF logic.operator = "AND"
     THEN \A i \in 1..Len(results) : results[i]
     ELSE \E i \in 1..Len(results) : results[i]

\* !q.conditionalDisplay || evaluateConditions(q.conditionalDisplay, state)
IsVisible(q, st) ==
  ~q.conditionalDisplay.present \/ evaluateConditions(q.conditionalDisplay, st)

(***************************************************************************)
(* Answer validation                                                       *)
(***************************************************************************)
isEmpty(value) ==
  \/ value.t \in {"undefined", "null"}
  \/ (value.t = "string" /\ Trim(value.s) = <<>>)
  \/ (value.t = "array" /\ Len(value.a) = 0)

Error(questionId, code) == [questionId |-> questionId, code |-> code]

validateMultiChoice(question, value) ==
  LET selections == IF value.t = "array" THEN value.a ELSE <<>>
  IN (IF question.minSelections # 0 /\ Len(selections) < question.minSelections
      THEN <<Error(question.id, "min-selections")>> ELSE <<>>)
     \o
     (IF question.maxSelections # 0 /\ Len(selections) > question.maxSelections
      THEN <<Error(question.id, "max-selections")>> ELSE <<>>)

\* value is falsy: String(value || '') is then the empty string
Falsy(value) ==
  \/ value.t \in {"undefined", "null", "NaN"}
  \/ (value.t = "number" /\ value.n = 0)
  \/ (value.t = "string" /\ value.s = <<>>)

\* new RegExp(pattern).test(text), for the one pattern the model's quizzes
\* use: "^[0-9]+$"
RegExpTest(pattern, text) ==
  IF pattern = "^[0-9]+$" THEN text # <<>> /\ DigitPrefix(text) = text ELSE TRUE

validateTextInput(question, value) ==
  LET text == IF Falsy(value) THEN <<>> ELSE ToStringChars(value)
  IN (IF question.minLength # 0 /\ Len(text) < question.minLength
      THEN <<Error(question.id, "min-length")>> ELSE <<>>)
     \o
     (IF question.maxLength # 0 /\ Len(text) > question.maxLength
      THEN <<Error(question.id, "max-length")>> ELSE <<>>)
     \o
     (IF question.validationPattern # "" /\ ~RegExpTest(question.validationPattern, text)
      THEN <<Error(question.id, "pattern")>> ELSE <<>>)

\* typeof value === 'number' ? value : parseFloat(String(value))
CoerceNum(value) ==
  IF value.t \in {"number", "NaN"} THEN value ELSE ParseFloat(ToStringChars(value))

\* mutant: the upper bound of the slider is exclusive
validateSlider_exclusiveMax(question, value) ==
  LET num == CoerceNum(value)
  IN IF num.t = "NaN" THEN <<Error(question.id, "invalid-format")>>
     ELSE IF num.n < question.min \/ num.n >= question.max
          THEN <<Error(question.id, "out-of-range")>>
          ELSE <<>>

validateSlider(question, value) ==
  LET num == CoerceNum(value)
  IN IF num.t = "NaN" THEN <<Error(question.id, "invalid-format")>>
     ELSE IF num.n < question.min \/ num.n > question.max
          THEN <<Error(question.id, "out-of-range")>>
          ELSE <<>>

validateLikert(question, value) ==
  IF CoerceNum(value).t = "NaN" THEN <<Error(question.id, "invalid-format")>> ELSE <<>>

Validation(errors) == [isValid |-> errors = <<>>, errors |-> errors]

\* mutant: the type-specific checks also run on the empty value of a
\* required question
validateAnswer_requiredKeepsChecking(question, value) ==
  LET required == IF question.required # "false" /\ isEmpty(value)
                  THEN <<Error(question.id, "required")>> ELSE <<>>
  IN IF required = <<>> /\ isEmpty(value)
     THEN [isValid |-> TRUE, errors |-> <<>>]
     ELSE Validation(
            required \o
            CASE question.type = "multi-choice" -> validateMultiChoice(question, value)
              [] question.type = "text-input" -> validateTextInput(question, value)
              [] question.type = "slider" -> validateSlider(question, value)
              [] question.type = "likert" -> validateLikert(question, value)
              [] OTHER -> <<>>)

validateAnswer(question, value) ==
  IF question.required # "false" /\ isEmpty(value)
  THEN [isValid |-> FALSE, errors |-> <<Error(question.id, "required")>>]
  ELSE IF isEmpty(value)
       THEN [isValid |-> TRUE, errors |-> <<>>]
       ELSE Validation(
              CASE question.type = "multi-choice" -> validateMultiChoice(question, value)
                [] question.type = "text-input" -> validateTextInput(question, value)
                [] question.type = "slider" -> validateSlider(question, value)
                [] question.type = "likert" -> validateLikert(question, value)
                [] OTHER -> <<>>)

\* Math.round(num / den * 100) for 0 <= num <= den, den > 0: the nearest
\* integer, a half rounding up
RoundPercent(num, den) == (200 * num + den) \div (2 * den)

\* mutant: the hidden questions count in the denominator
calculateProgress_countsHidden(st) ==
  LET visibleQuestions == SelectSeq(quiz.questions, LAMBDA q : IsVisible(q, st))
      answered == SelectSeq(visibleQuestions,
                            LAMBDA q : ~isEmpty(AnswerValue(st, q.id)))
  IN IF Len(quiz.questions) = 0 THEN 100
     ELSE RoundPercent(Len(answered), Len(quiz.questions))

calculateProgress(st) ==
  LET visibleQuestions == SelectSeq(quiz.questions, LAMBDA q : IsVisible(q, st))
      answered == SelectSeq(visibleQuestions,
                            LAMBDA q : ~isEmpty(AnswerValue(st, q.id)))
  IN IF Len(visibleQuestions) = 0 THEN 100
     ELSE RoundPercent(Len(answered), Len(visibleQuestions))

\* mutant: a hidden required question without an answer fails the check
isQuizComplete_countsHidden(questions, st) ==
  \A i \in 1..Len(questions) :
    LET question == questions[i]
    IN IF question.required # "false"
       THEN ~isEmpty(AnswerValue(st, question.id))
       ELSE TRUE

isQuizComplete(questions, st) ==
  \A i \in 1..Len(questions) :
    LET question == questions[i]
    IN IF question.conditionalDisplay.present
          /\ ~evaluateConditions(question.conditionalDisplay, st)
       THEN TRUE
       ELSE IF question.required # "false"
            THEN ~isEmpty(AnswerValue(st, question.id))
            ELSE TRUE

getUnansweredQuestions(questions, st) ==
  SelectSeq(questions,
    LAMBDA question :
      IF question.conditionalDisplay.present
         /\ ~evaluateConditions(question.conditionalDisplay, st)
      THEN FALSE
      ELSE IF question.required = "false" THEN FALSE
           ELSE isEmpty(AnswerValue(st, question.id)))

(***************************************************************************)
(* Scoring engine.  A score map is a sequence of <<category, score>> pairs *)
(* in the iteration order of the JavaScript object: the order in which the *)
(* keys were first written.  The answers are enumerated in the order of    *)
(* the quiz's question list.                                               *)
(***************************************************************************)
WarCategories == <<"abandonment", "exposure", "entrapment", "erasure">>
MaskCategories == <<"flooded", "armored", "phantom", "analyzer">>

HasKey(scores, key) == \E i \in 1..Len(scores) : scores[i][1] = key

\* scores[key] || 0
ScoreOf(scores, key) ==
  IF HasKey(scores, key)
  THEN scores[CHOOSE i \in 1..Len(scores) : scores[i][1] = key][2]
  ELSE 0

\* scores[key] = value
PutScore(scores, key, value) ==
  IF HasKey(scores, key)
  THEN [i \in 1..Len(scores) |-> IF scores[i][1] = key THEN <<key, value>> ELSE scores[i]]
  ELSE Append(scores, <<key, value>>)

\* mutant: only the answers of visible questions are scored
AnsweredQuestions_visibleOnly(st) ==
  SelectSeq(quiz.questions,
            LAMBDA q : /\ q.id \in DOMAIN st.answers
                       /\ IsVisible(q, st)
                       /\ q = quiz.questions[CHOOSE i \in 1..Len(quiz.questions) :
                                /\ quiz.questions[i].id = q.id
                                /\ \A j \in 1..(i - 1) : quiz.questions[j].id # q.id])

\* the questions of the quiz that have a stored answer, in question order:
\* the answers whose question quiz.questions.find(...) finds
AnsweredQuestions(st) ==
  SelectSeq(quiz.questions,
            LAMBDA q : /\ q.id \in DOMAIN st.answers
                       /\ q = quiz.questions[CHOOSE i \in 1..Len(quiz.questions) :
                                /\ quiz.questions[i].id = q.id
                                /\ \A j \in 1..(i - 1) : quiz.questions[j].id # q.id])

\* q.options.find(opt => opt.letter === val || opt.value === val)
FindOption(question, val) ==
  LET hits == SelectSeq(question.options,
                LAMBDA opt : StrictEquals(opt.letter, val) \/ StrictEquals(opt.value, val))
  IN IF hits = <<>> THEN <<>> ELSE <<Head(hits)>>

RECURSIVE MultiChoiceScores(_, _)
MultiChoiceScores(question, values) ==
  IF values = <<>> THEN <<>>
  ELSE LET found == FindOption(question, Head(values))
       IN (IF found = <<>> THEN <<>> ELSE found[1].scores)
          \o MultiChoiceScores(question, Tail(values))

getScoreContributionsFromAnswer(question, answerValue) ==
  CASE question.type \in {"single-choice", "scenario"} ->
         LET found == FindOption(question, answerValue)
         IN IF found = <<>> THEN <<>>
            ELSE LET option == found[1]
                 IN option.scores
                    \o (IF option.war # ""
                        THEN <<ScoreContribution(option.war, 1, Undefined)>> ELSE <<>>)
                    \o (IF option.mask # ""
                        THEN <<ScoreContribution(option.mask, 1, Undefined)>> ELSE <<>>)
                    \o (IF option.archetype # ""
                        THEN <<ScoreContribution(option.archetype, 1, Undefined)>> ELSE <<>>)
    [] question.type = "binary" ->
         LET positive == IF question.positiveValue.t \in {"undefined", "null"}
                         THEN Num(1) ELSE question.positiveValue
             score == IF StrictEquals(answerValue, positive) THEN 1 ELSE 0
         IN IF question.scoringCategory # "" /\ score > 0
            THEN <<ScoreContribution(question.scoringCategory, score, Undefined)>>
            ELSE <<>>
    [] question.type = "likert" ->
         LET raw == IF answerValue.t = "number" THEN answerValue.n ELSE 0
             score == IF question.reverseCoded THEN question.scalePoints - raw + 1 ELSE raw
         IN IF question.scoringCategory # ""
            THEN <<ScoreContribution(question.scoringCategory, score, Undefined)>>
            ELSE <<>>
    [] question.type = "multi-choice" ->
         MultiChoiceScores(question,
           IF answerValue.t = "array" THEN answerValue.a ELSE <<answerValue>>)
    [] question.type = "slider" ->
         IF question.scoringCategory # "" /\ answerValue.t = "number"
         THEN <<ScoreContribution(question.scoringCategory, answerValue.n, Undefined)>>
         ELSE <<>>
    [] OTHER -> <<>>

\* contrib.value * (contrib.weight ?? 1)
Weighted(contrib) ==
  contrib.value * (IF contrib.weight.t = "number" THEN contrib.weight.n ELSE 1)

\* mutant: a contribution replaces the score of its category
RECURSIVE AddContributions_overwrite(_, _)
AddContributions_overwrite(scores, contribs) ==
  IF contribs = <<>> THEN scores
  ELSE AddContributions_overwrite(
         PutScore(scores, Head(contribs).category, Weighted(Head(contribs))),
         Tail(contribs))

RECURSIVE AddContributions(_, _)
AddContributions(scores, contribs) ==
  IF contribs = <<>> THEN scores
  ELSE AddContributions(
         PutScore(scores, Head(contribs).category,
                  ScoreOf(scores, Head(contribs).category) + Weighted(Head(contribs))),
         Tail(contribs))

RECURSIVE InitScores(_)
InitScores(categories) ==
  IF categories = <<>> THEN <<>>
  ELSE PutScore(InitScores(SubSeq(categories, 1, Len(categories) - 1)),
                categories[Len(categories)].id, 0)

RECURSIVE ScoreAnswers(_, _, _)
ScoreAnswers(scores, questions, st) ==
  IF questions = <<>> THEN scores
  ELSE ScoreAnswers(
         AddContributions(scores,
           getScoreContributionsFromAnswer(Head(questions),
                                           st.answers[Head(questions).id].value)),
         Tail(questions), st)

calculateCategoryScores(st) ==
  ScoreAnswers(InitScores(quiz.scoring.categories), AnsweredQuestions(st), st)

getAnswerText(question, value) ==
  IF question.type \in {"single-choice", "scenario"}
  THEN LET found == FindOption(question, value)
       IN IF found # <<>> /\ found[1].text # <<>> THEN found[1].text
          ELSE ToStringChars(value)
  ELSE IF question.type = "binary"
       THEN LET positive == IF question.positiveValue.t \in {"undefined", "null"}
                            THEN Num(1) ELSE question.positiveValue
            IN IF StrictEquals(value, positive)
               THEN (IF question.positiveLabel # <<>> THEN question.positiveLabel
                     ELSE <<"Y", "e", "s">>)
               ELSE (IF question.negativeLabel # <<>> THEN question.negativeLabel
                     ELSE <<"N", "o">>)
       ELSE ToStringChars(value)

RECURSIVE AnswerContributions(_, _)
AnswerContributions(questions, st) ==
  IF questions = <<>> THEN <<>>
  ELSE LET question == Head(questions)
           value == st.answers[question.id].value
           scoreContribs == getScoreContributionsFromAnswer(question, value)
       IN (IF scoreContribs = <<>> THEN <<>>
           ELSE <<[questionId |-> question.id,
                   questionLabel |-> IF question.label # "" THEN question.label
                                     ELSE question.id,
                   answerText |-> getAnswerText(question, value),
                   categories |-> scoreContribs]>>)
          \o AnswerContributions(Tail(questions), st)

getAnswerContributions(st) == AnswerContributions(AnsweredQuestions(st), st)

\* the stable sort of the positive entries, descending by score
\* mutant: the sort puts an entry before the entries of equal score
RECURSIVE InsertSorted_lastWins(_, _)
InsertSorted_lastWins(sorted, entry) ==
  IF sorted = <<>> THEN <<entry>>
  ELSE IF entry[2] >= Head(sorted)[2] THEN <<entry>> \o sorted
       ELSE <<Head(sorted)>> \o InsertSorted_lastWins(Tail(sorted), entry)

RECURSIVE InsertSorted(_, _)
InsertSorted(sorted, entry) ==
  IF sorted = <<>> THEN <<entry>>
  ELSE IF entry[2] > Head(sorted)[2] THEN <<entry>> \o sorted
       ELSE <<Head(sorted)>> \o InsertSorted(Tail(sorted), entry)

RECURSIVE SortDescending(_)
SortDescending(entries) ==
  IF entries = <<>> THEN <<>>
  ELSE InsertSorted(SortDescending(SubSeq(entries, 1, Len(entries) - 1)),
                    entries[Len(entries)])

\* this.config.categories.find(c => c.id === categoryId)
FindCategory(categoryId) ==
  LET hits == SelectSeq(quiz.scoring.categories, LAMBDA c : c.id = categoryId)
  IN IF hits = <<>> THEN <<>> ELSE <<Head(hits)>>

RECURSIVE SumSeq(_)
SumSeq(xs) == IF xs = <<>> THEN 0 ELSE Head(xs) + SumSeq(Tail(xs))

OptionMax(opt, categoryId) ==
  SumSeq([i \in 1..Len(opt.scores) |->
            IF opt.scores[i].category = categoryId THEN Weighted(opt.scores[i]) ELSE 0])
  + (IF opt.war = categoryId \/ opt.mask = categoryId THEN 1 ELSE 0)

estimateMaxScore(categoryId) ==
  LET max == SumSeq([i \in 1..Len(quiz.questions) |->
               IF quiz.questions[i].type \in {"single-choice", "scenario"}
               THEN SumSeq([k \in 1..Len(quiz.questions[i].options) |->
                              OptionMax(quiz.questions[i].options[k], categoryId)])
               ELSE 0])
  IN IF max # 0 THEN max ELSE 10

getScoreLevel(categoryId, score) ==
  LET found == FindCategory(categoryId)
      hits == IF found = <<>> THEN <<>>
              ELSE SelectSeq(found[1].thresholds,
                             LAMBDA th : score >= th.min /\ score <= th.max)
  IN IF hits = <<>> THEN "unknown" ELSE Head(hits).level

\* a result dimension; the percentage score / maxScore * 100 is kept as the
\* fraction num / den
Dimension(entry) ==
  LET found == FindCategory(entry[1])
      maxScore == IF found # <<>> /\ found[1].maxScore # 0 THEN found[1].maxScore
                  ELSE estimateMaxScore(entry[1])
  IN [category |-> entry[1], score |-> entry[2],
      percentage |-> IF maxScore > 0 THEN [num |-> entry[2] * 100, den |-> maxScore]
                     ELSE [num |-> 0, den |-> 1],
      level |-> getScoreLevel(entry[1], entry[2])]

\* the secondary dimension is a sequence of at most one dimension
determinePrimaryResult(scores) ==
  LET sorted == SortDescending(SelectSeq(scores, LAMBDA e : e[2] > 0))
  IN IF sorted = <<>>
     THEN [primary |-> [category |-> "unknown", score |-> 0], secondary |-> <<>>]
     ELSE [primary |-> Dimension(sorted[1]),
           secondary |-> IF Len(sorted) > 1 THEN <<Dimension(sorted[2])>> ELSE <<>>]

SeqMax(xs) == CHOOSE x \in {xs[i] : i \in 1..Len(xs)} : \A i \in 1..Len(xs) : xs[i] <= x

SeqMin(xs) == CHOOSE x \in {xs[i] : i \in 1..Len(xs)} : \A i \in 1..Len(xs) : xs[i] >= x

\* mutant: the spread is taken over all four war categories
checkGroundZero_spreadOfAll(scores) ==
  LET gzConfig == quiz.scoring.groundZeroThreshold
      allScores == [i \in 1..Len(WarCategories) |-> ScoreOf(scores, WarCategories[i])]
      warScores == SelectSeq(allScores, LAMBDA score : score >= gzConfig.minScore)
  IN IF ~gzConfig.present THEN FALSE
     ELSE IF Len(warScores) < gzConfig.minCategories THEN FALSE
     ELSE SeqMax(allScores) - SeqMin(allScores) <= gzConfig.maxSpread

\* Math.max() of no numbers is -Infinity and Math.min() is Infinity, so the
\* spread of an empty list is -Infinity, below every maxSpread
checkGroundZero(scores) ==
  LET gzConfig == quiz.scoring.groundZeroThreshold
      warScores == SelectSeq([i \in 1..Len(WarCategories) |-> ScoreOf(scores, WarCategories[i])],
                             LAMBDA score : score >= gzConfig.minScore)
  IN IF ~gzConfig.present THEN FALSE
     ELSE IF Len(warScores) < gzConfig.minCategories THEN FALSE
     ELSE IF warScores = <<>> THEN TRUE
     ELSE SeqMax(warScores) - SeqMin(warScores) <= gzConfig.maxSpread

\* the category of the list with the highest score, "" for null
RECURSIVE TopFrom(_, _, _, _)
TopFrom(scores, categories, top, topScore) ==
  IF categories = <<>> THEN top
  ELSE LET score == ScoreOf(scores, Head(categories))
       IN IF score > topScore
          THEN TopFrom(scores, Tail(categories), Head(categories), score)
          ELSE TopFrom(scores, Tail(categories), top, topScore)

getTopFromList(scores, categories) == TopFrom(scores, categories, "", -1)

\* mutant: the highest-wins key is the primary category alone
buildResultKey_primaryOnly(primary, secondary, scores) ==
  LET topWar == getTopFromList(scores, WarCategories)
      topMask == getTopFromList(scores, MaskCategories)
  IN IF quiz.scoring.type = "composite" /\ topWar # "" /\ topMask # ""
     THEN topWar \o "-" \o topMask
     ELSE primary.category

buildResultKey(primary, secondary, scores) ==
  LET topWar == getTopFromList(scores, WarCategories)
      topMask == getTopFromList(scores, MaskCategories)
  IN IF quiz.scoring.type = "composite" /\ topWar # "" /\ topMask # ""
     THEN topWar \o "-" \o topMask
     ELSE IF secondary # <<>>
          THEN primary.category \o "-" \o secondary[1].category
          ELSE primary.category

\* mutant: the key is built from the categories whatever the ground-zero flag
calculateResults_keyOfCategories(st) ==
  LET scores == calculateCategoryScores(st)
      contributions == getAnswerContributions(st)
      dims == determinePrimaryResult(scores)
      isGroundZero == checkGroundZero(scores)
  IN [resultKey |-> buildResultKey(dims.primary, dims.secondary, scores),
      primary |-> dims.primary,
      secondary |-> dims.secondary,
      scores |-> scores,
      contributions |-> contributions,
      isGroundZero |-> isGroundZero,
      timestamp |-> Date(now),
      metadata |-> st.metadata]

calculateResults(st) ==
  LET scores == calculateCategoryScores(st)
      contributions == getAnswerContributions(st)
      dims == determinePrimaryResult(scores)
      isGroundZero == checkGroundZero(scores)
  IN [resultKey |-> IF isGroundZero THEN "ground-zero"
                    ELSE buildResultKey(dims.primary, dims.secondary, scores),
      primary |-> dims.primary,
      secondary |-> dims.secondary,
      scores |-> scores,
      contributions |-> contributions,
      isGroundZero |-> isGroundZero,
      timestamp |-> Date(now),
      metadata |-> st.metadata]

(***************************************************************************)
(* Quiz engine.  The methods are operators on a machine m: the engine's    *)
(* fields (state, questionOrder, handlers for eventHandlers), the storage  *)
(* item under config.storageKey, the number of pending auto-advance        *)
(* timers, the webhook requests in flight, and what the call under way has *)
(* produced so far: the events emitted, in order, the handler invocations, *)
(* in order, and its return value.  quiz and config are set by the         *)
(* constructor and never assigned again.                                   *)
(***************************************************************************)
NoItem == [present |-> FALSE]

NoReturn == [void |-> TRUE]

\* this.questionOrder[index], -1 for undefined
OrderAt(m, index) ==
  IF index \in 0..(Len(m.questionOrder) - 1) THEN m.questionOrder[index + 1] ELSE -1

\* this.quiz.questions[actualIndex] || null
QuestionAt(actualIndex) ==
  IF actualIndex \in 0..(Len(quiz.questions) - 1)
  THEN quiz.questions[actualIndex + 1]
  ELSE NullQuestion

initializeState ==
  [quizId |-> quiz.id,
   currentQuestionIndex |-> 0,
   answers |-> EmptyMap,
   startedAt |-> Date(now),
   completedAt |-> NoDate,
   metadata |-> EmptyMap]

Identity(n) == [i \in 1..n |-> i - 1]

Permutations0(n) ==
  {p \in [1..n -> 0..(n - 1)] : \A i, j \in 1..n : p[i] = p[j] => i = j}

\* the orders initializeQuestionOrder can return: the Fisher-Yates shuffle
\* can produce every permutation
initializeQuestionOrder ==
  IF quiz.options.randomizeQuestions
  THEN Permutations0(Len(quiz.questions))
  ELSE {Identity(Len(quiz.questions))}

getCurrentQuestion(m) == QuestionAt(OrderAt(m, m.state.currentQuestionIndex))

getQuestion(m, index) == QuestionAt(OrderAt(m, index))

getVisibleQuestions(m) == SelectSeq(quiz.questions, LAMBDA q : IsVisible(q, m.state))

getTotalQuestions(m) == Len(getVisibleQuestions(m))

\* visibleQuestions.findIndex(q => q.id === currentQuestion.id) is -1 when
\* no visible question has the id
getCurrentVisibleIndex(m) ==
  LET visibleQuestions == getVisibleQuestions(m)
      currentQuestion == getCurrentQuestion(m)
      hits == {i \in 1..Len(visibleQuestions) :
                 visibleQuestions[i].id = currentQuestion.id}
  IN IF currentQuestion = NullQuestion THEN 0
     ELSE IF hits = {} THEN -1
          ELSE (CHOOSE i \in hits : \A j \in hits : i <= j) - 1

getProgress(m) == calculateProgress(m.state)

isComplete(m) == isQuizComplete(quiz.questions, m.state)

getAnswer(m, questionId) ==
  IF questionId \in DOMAIN m.state.answers THEN <<m.state.answers[questionId]>> ELSE <<>>

\* JSON.parse(JSON.stringify(state)): every Date becomes its ISO string, NaN
\* becomes null, an undefined property is dropped and reads as undefined
JsonValue(v) ==
  IF v.t = "NaN" THEN Null
  ELSE IF v.t = "array"
       THEN Arr([i \in 1..Len(v.a) |->
                   IF v.a[i].t \in {"NaN", "undefined"} THEN Null ELSE v.a[i]])
       ELSE v

JsonDate(d) == IF d.kind = "Date" THEN IsoString(d.ms) ELSE d

JsonState(st) ==
  [quizId |-> st.quizId,
   currentQuestionIndex |-> st.currentQuestionIndex,
   answers |-> [id \in DOMAIN st.answers |->
                  [questionId |-> st.answers[id].questionId,
                   value |-> JsonValue(st.answers[id].value),
                   timestamp |-> JsonDate(st.answers[id].timestamp)]],
   startedAt |-> JsonDate(st.startedAt),
   completedAt |-> JsonDate(st.completedAt),
   metadata |-> [k \in DOMAIN st.metadata |-> JsonValue(st.metadata[k])]]

saveProgress(m) ==
  [m EXCEPT !.storage = [present |-> TRUE,
                         state |-> JsonState(m.state),
                         questionOrder |-> m.questionOrder,
                         savedAt |-> IsoString(now)]]

clearProgress(m) == [m EXCEPT !.storage = NoItem]

\* an item under the storage key that JSON.parse rejects
Unreadable == [present |-> TRUE, text |-> "{"]

\* JSON.parse(saved) returns a value
Parses(saved) == "state" \in DOMAIN saved

\* 24 hours in milliseconds: hoursSinceSave > 24, where hoursSinceSave is
\* (Date.now() - savedAt.getTime()) / (1000 * 60 * 60)
StaleAfterMs == 24 * (1000 * 60 * 60)

\* new Date(isoString)
ParseDate(d) == IF d.kind = "string" THEN Date(d.ms) ELSE d

\* mutant: a snapshot is restored whatever its age
restoreProgress_noExpiry(m) ==
  LET saved == m.storage
  IN IF ~saved.present THEN m
     ELSE IF ~Parses(saved) THEN m
     ELSE [m EXCEPT !.state = [saved.state EXCEPT !.startedAt = ParseDate(@)],
                    !.questionOrder = saved.questionOrder]

restoreProgress(m) ==
  LET saved == m.storage
  IN IF ~saved.present THEN m
     ELSE IF ~Parses(saved) THEN m
     ELSE IF now - ParseDate(saved.savedAt).ms > StaleAfterMs THEN clearProgress(m)
     ELSE [m EXCEPT !.state = [saved.state EXCEPT !.startedAt = ParseDate(@)],
                    !.questionOrder = saved.questionOrder]

QuizEventTypes ==
  {"quiz:started", "quiz:question-answered", "quiz:question-skipped",
   "quiz:navigation", "quiz:completed", "quiz:results-viewed", "quiz:restarted",
   "quiz:email-submitted"}

\* this.eventHandlers of a new engine; a type without a list behaves as a
\* type with an empty list
NoHandlers == [type \in QuizEventTypes |-> <<>>]

\* the handlers that throw when they are called
ThrowingHandlers == {"thrower"}

\* the handlers that call the unsubscribe function on() returned for them
\* when they are called: const off = engine.on(type, () => off())
UnsubscribingHandlers == {"leaver"}

\* this.eventHandlers.get(eventType).push(handler)
on(m, eventType, handler) ==
  [m EXCEPT !.handlers[eventType] = Append(@, handler)]

\* handlers.indexOf(handler), from 1; 0 when the handler is not in the list
IndexOf(handlers, handler) ==
  IF \E i \in 1..Len(handlers) : handlers[i] = handler
  THEN CHOOSE i \in 1..Len(handlers) :
         /\ handlers[i] = handler
         /\ \A j \in 1..(i - 1) : handlers[j] # handler
  ELSE 0

\* the function on(eventType, handler) returned: splice(index, 1)
unsubscribe(m, eventType, handler) ==
  LET handlers == m.handlers[eventType]
      index == IndexOf(handlers, handler)
  IN IF index > 0
     THEN [m EXCEPT !.handlers[eventType] =
             SubSeq(handlers, 1, index - 1) \o SubSeq(handlers, index + 1, Len(handlers))]
     ELSE m

\* mutant: without the try/catch a handler that throws ends the forEach
RECURSIVE Deliver_noCatch(_, _, _, _, _)
Deliver_noCatch(m, type, event, k, len) ==
  IF k >= len \/ k >= Len(m.handlers[type]) THEN m
  ELSE LET handler == m.handlers[type][k + 1]
           called == [m EXCEPT !.delivered =
                        Append(@, [handler |-> handler, event |-> event])]
           after == IF handler \in UnsubscribingHandlers
                    THEN unsubscribe(called, type, handler) ELSE called
       IN IF handler \in ThrowingHandlers THEN after
          ELSE Deliver_noCatch(after, type, event, k + 1, len)

\* handlers.forEach(handler => { try { handler(event) } catch (e) { ... } })
\* forEach reads the length of the list once and then visits the indexes
\* k = 0 .. len - 1 of the list as it is when it gets to them; an index the
\* list no longer has is passed over, and splice leaves no hole, so they are
\* the last ones
RECURSIVE Deliver(_, _, _, _, _)
Deliver(m, type, event, k, len) ==
  IF k >= len \/ k >= Len(m.handlers[type]) THEN m
  ELSE LET handler == m.handlers[type][k + 1]
           called == [m EXCEPT !.delivered =
                        Append(@, [handler |-> handler, event |-> event])]
           after == IF handler \in UnsubscribingHandlers
                    THEN unsubscribe(called, type, handler) ELSE called
       IN Deliver(after, type, event, k + 1, len)

\* the event as a subscribed handler receives it, with the engine state it
\* can read through getState() while it runs
emit(m, type, data) ==
  LET event == [type |-> type, quizId |-> quiz.id, timestamp |-> Date(now),
                data |-> data, state |-> m.state]
  IN Deliver([m EXCEPT !.emitted = Append(@, event)], type, event, 0,
             Len(m.handlers[type]))

Return(m, value) == [m EXCEPT !.ret = value]

\* new QuizEngine(quiz, config) over the storage m has: order is the order
\* initializeQuestionOrder returns; no handler is subscribed and no timer
\* is pending on the new engine
constructor(m, order) ==
  LET fresh == [m EXCEPT !.state = initializeState, !.questionOrder = order,
                         !.handlers = NoHandlers, !.timers = 0]
  IN IF config.persistAnswers THEN restoreProgress(fresh) ELSE fresh

Persist(m) == IF config.persistAnswers THEN saveProgress(m) ELSE m

start(m) ==
  emit([m EXCEPT !.state = initializeState], "quiz:started", [quizId |-> quiz.id])

\* mutant: two timers are set for one answer
Schedule_twice(m) == IF config.autoAdvance THEN [m EXCEPT !.timers = @ + 2] ELSE m

\* setTimeout(() => this.next(), autoAdvanceDelay)
Schedule(m) == IF config.autoAdvance THEN [m EXCEPT !.timers = @ + 1] ELSE m

\* mutant: the answer is stored under a key of its own for every call
StoreAnswer_newKey(m, question, value) ==
  [m EXCEPT !.state.answers =
     [id \in DOMAIN m.state.answers \cup {question.id \o "'"} |->
        IF id = question.id \o "'"
        THEN [questionId |-> question.id, value |-> value, timestamp |-> Date(now)]
        ELSE m.state.answers[id]]]

StoreAnswer(m, question, value) ==
  [m EXCEPT !.state.answers =
     [id \in DOMAIN m.state.answers \cup {question.id} |->
        IF id = question.id
        THEN [questionId |-> question.id, value |-> value, timestamp |-> Date(now)]
        ELSE m.state.answers[id]]]

\* mutant: the answer is stored before the value is validated
submitAnswer_storeFirst(m, value) ==
  LET question == getCurrentQuestion(m)
      validation == validateAnswer(question, value)
      stored == StoreAnswer(m, question, value)
      answered == emit(stored, "quiz:question-answered",
                       [questionId |-> question.id, value |-> value,
                        questionIndex |-> stored.state.currentQuestionIndex])
  IN IF question = NullQuestion
     THEN Return(m, [isValid |-> FALSE, errors |-> <<Error("", "required")>>])
     ELSE IF ~validation.isValid
          THEN Return(stored, validation)
          ELSE Return(Schedule(Persist(answered)), [isValid |-> TRUE, errors |-> <<>>])

\* mutant: the 'answered' event is emitted before the answer is stored
submitAnswer_emitFirst(m, value) ==
  LET question == getCurrentQuestion(m)
      validation == validateAnswer(question, value)
      answered == emit(m, "quiz:question-answered",
                       [questionId |-> question.id, value |-> value,
                        questionIndex |-> m.state.currentQuestionIndex])
      stored == StoreAnswer(answered, question, value)
  IN IF question = NullQuestion
     THEN Return(m, [isValid |-> FALSE, errors |-> <<Error("", "required")>>])
     ELSE IF ~validation.isValid
          THEN Return(m, validation)
          ELSE Return(Schedule(Persist(stored)), [isValid |-> TRUE, errors |-> <<>>])

submitAnswer(m, value) ==
  LET question == getCurrentQuestion(m)
      validation == validateAnswer(question, value)
      stored == StoreAnswer(m, question, value)
      answered == emit(stored, "quiz:question-answered",
                       [questionId |-> question.id, value |-> value,
                        questionIndex |-> stored.state.currentQuestionIndex])
  IN IF question = NullQuestion
     THEN Return(m, [isValid |-> FALSE, errors |-> <<Error("", "required")>>])
     ELSE IF ~validation.isValid
          THEN Return(m, validation)
          ELSE Return(Schedule(Persist(answered)), [isValid |-> TRUE, errors |-> <<>>])

\* mutant: the forward scan stops at the next index, visible or not
ScanForward_noSkip(m, nextIndex) == nextIndex

\* the forward scan of next(): the first index from nextIndex on whose
\* question exists and is visible, or the number of questions
RECURSIVE ScanForward(_, _)
ScanForward(m, nextIndex) ==
  IF nextIndex < Len(quiz.questions)
  THEN LET question == getQuestion(m, nextIndex)
       IN IF question # NullQuestion /\ IsVisible(question, m.state)
          THEN nextIndex
          ELSE ScanForward(m, nextIndex + 1)
  ELSE nextIndex

\* mutant: the end-of-list check is missing
next_noEndCheck(m) ==
  LET nextIndex == ScanForward(m, m.state.currentQuestionIndex + 1)
      moved == emit([m EXCEPT !.state.currentQuestionIndex = nextIndex],
                    "quiz:navigation", [direction |-> "next", index |-> nextIndex])
  IN IF getCurrentQuestion(m) = NullQuestion THEN Return(m, FALSE)
     ELSE Return(Persist(moved), TRUE)

next(m) ==
  LET nextIndex == ScanForward(m, m.state.currentQuestionIndex + 1)
      moved == emit([m EXCEPT !.state.currentQuestionIndex = nextIndex],
                    "quiz:navigation", [direction |-> "next", index |-> nextIndex])
  IN IF getCurrentQuestion(m) = NullQuestion THEN Return(m, FALSE)
     ELSE IF nextIndex >= Len(quiz.questions) THEN Return(m, FALSE)
     ELSE Return(Persist(moved), TRUE)

\* mutant: the backward scan stops at the previous index, visible or not
ScanBackward_noSkip(m, prevIndex) == prevIndex

\* the backward scan of previous(): the first index from prevIndex down whose
\* question exists and is visible, or -1
RECURSIVE ScanBackward(_, _)
ScanBackward(m, prevIndex) ==
  IF prevIndex >= 0
  THEN LET question == getQuestion(m, prevIndex)
       IN IF question # NullQuestion /\ IsVisible(question, m.state)
          THEN prevIndex
          ELSE ScanBackward(m, prevIndex - 1)
  ELSE prevIndex

\* mutant: the check that the backward scan found a question is missing
previous_noFloor(m) ==
  LET prevIndex == ScanBackward(m, m.state.currentQuestionIndex - 1)
      moved == emit([m EXCEPT !.state.currentQuestionIndex = prevIndex],
                    "quiz:navigation", [direction |-> "back", index |-> prevIndex])
  IN IF ~quiz.options.allowBackNavigation THEN Return(m, FALSE)
     ELSE IF m.state.currentQuestionIndex <= 0 THEN Return(m, FALSE)
     ELSE Return(Persist(moved), TRUE)

previous(m) ==
  LET prevIndex == ScanBackward(m, m.state.currentQuestionIndex - 1)
      moved == emit([m EXCEPT !.state.currentQuestionIndex = prevIndex],
                    "quiz:navigation", [direction |-> "back", index |-> prevIndex])
  IN IF ~quiz.options.allowBackNavigation THEN Return(m, FALSE)
     ELSE IF m.state.currentQuestionIndex <= 0 THEN Return(m, FALSE)
     ELSE IF prevIndex < 0 THEN Return(m, FALSE)
     ELSE Return(Persist(moved), TRUE)

\* mutant: the jump does not look at the target's conditional display
goToQuestion_noVisibility(m, index) ==
  LET question == getQuestion(m, index)
      moved == emit([m EXCEPT !.state.currentQuestionIndex = index],
                    "quiz:navigation", [direction |-> "jump", index |-> index])
  IN IF index < 0 \/ index >= Len(quiz.questions) THEN Return(m, FALSE)
     ELSE IF question = NullQuestion THEN Return(m, FALSE)
     ELSE Return(moved, TRUE)

goToQuestion(m, index) ==
  LET question == getQuestion(m, index)
      moved == emit([m EXCEPT !.state.currentQuestionIndex = index],
                    "quiz:navigation", [direction |-> "jump", index |-> index])
  IN IF index < 0 \/ index >= Len(quiz.questions) THEN Return(m, FALSE)
     ELSE IF question = NullQuestion THEN Return(m, FALSE)
     ELSE IF question.conditionalDisplay.present
             /\ ~evaluateConditions(question.conditionalDisplay, m.state)
          THEN Return(m, FALSE)
          ELSE Return(moved, TRUE)

\* mutant: a question is skippable unless it says required: true
skip_requiredDefaultsFalse(m) ==
  LET question == getCurrentQuestion(m)
  IN IF question = NullQuestion THEN Return(m, FALSE)
     ELSE IF question.required = "true" THEN Return(m, FALSE)
     ELSE next(emit(m, "quiz:question-skipped",
                    [questionId |-> question.id,
                     questionIndex |-> m.state.currentQuestionIndex]))

skip(m) ==
  LET question == getCurrentQuestion(m)
  IN IF question = NullQuestion THEN Return(m, FALSE)
     ELSE IF question.required # "false" THEN Return(m, FALSE)
     ELSE next(emit(m, "quiz:question-skipped",
                    [questionId |-> question.id,
                     questionIndex |-> m.state.currentQuestionIndex]))

\* { ...this.state.metadata, ...metadata }
setMetadata(m, metadata) ==
  Persist([m EXCEPT !.state.metadata =
             [k \in DOMAIN m.state.metadata \cup DOMAIN metadata |->
                IF k \in DOMAIN metadata THEN metadata[k] ELSE m.state.metadata[k]]])

\* sendToWebhook runs up to its await: the request is built from the state
\* at that moment and is in flight when the caller gets control back
sendToWebhook(m, result) ==
  IF ~config.webhookUrl THEN m
  ELSE [m EXCEPT !.deliveries =
          Append(@, [quizId |-> quiz.id, result |-> result,
                     state |-> JsonState(m.state), timestamp |-> IsoString(now)])]

\* mutant: complete() leaves the persisted snapshot in place
complete_noClear(m) ==
  LET stamped == [m EXCEPT !.state.completedAt = Date(now)]
      result == calculateResults(stamped.state)
      completed == emit(stamped, "quiz:completed",
                        [result |-> result,
                         duration |-> stamped.state.completedAt.ms
                                      - stamped.state.startedAt.ms])
  IN Return(IF config.webhookUrl THEN sendToWebhook(completed, result) ELSE completed,
            result)

\* mutant: complete() posts the result whether or not a webhook is configured
complete_alwaysSends(m) ==
  LET stamped == [m EXCEPT !.state.completedAt = Date(now)]
      result == calculateResults(stamped.state)
      completed == emit(stamped, "quiz:completed",
                        [result |-> result,
                         duration |-> stamped.state.completedAt.ms
                                      - stamped.state.startedAt.ms])
      cleared == IF config.persistAnswers THEN clearProgress(completed) ELSE completed
  IN Return([cleared EXCEPT !.deliveries =
               Append(@, [quizId |-> quiz.id, result |-> result,
                          state |-> JsonState(cleared.state),
                          timestamp |-> IsoString(now)])],
            result)

complete(m) ==
  LET stamped == [m EXCEPT !.state.completedAt = Date(now)]
      result == calculateResults(stamped.state)
      completed == emit(stamped, "quiz:completed",
                        [result |-> result,
                         duration |-> stamped.state.completedAt.ms
                                      - stamped.state.startedAt.ms])
      cleared == IF config.persistAnswers THEN clearProgress(completed) ELSE completed
  IN Return(IF config.webhookUrl THEN sendToWebhook(cleared, result) ELSE cleared,
            result)

\* mutant: restart() leaves the persisted snapshot in place
restart_noClear(m, order) ==
  emit([m EXCEPT !.state = initializeState, !.questionOrder = order],
       "quiz:restarted", [quizId |-> quiz.id])

restart(m, order) ==
  LET fresh == emit([m EXCEPT !.state = initializeState, !.questionOrder = order],
                    "quiz:restarted", [quizId |-> quiz.id])
  IN IF config.persistAnswers THEN clearProgress(fresh) ELSE fresh

(***************************************************************************)
(* The quizzes, configurations and inputs the engine is run on.            *)
(***************************************************************************)
QId(i) == "q" \o ToString(i)

One == Str(<<"1">>)
Two == Str(<<"2">>)

\* the options of a choice question: "1" tags a war, "2" tags a mask
Options ==
  <<ChoiceOption(Str(<<"A">>), <<"a">>, One, <<>>, "abandonment", "", ""),
    ChoiceOption(Str(<<"B">>), <<"b">>, Two,
                 <<ScoreContribution("flooded", 2, Undefined)>>, "", "", "")>>

\* question i of a quiz: the first is an optional choice question, the
\* second a required slider over 1..1, the others are choice questions that
\* leave the required flag out
BaseQuestion(i, logic) ==
  [Question(QId(i),
            IF i = 2 THEN "slider" ELSE "single-choice",
            IF i = 1 THEN "false" ELSE IF i = 2 THEN "true" ELSE "absent",
            logic)
   EXCEPT !.min = 1, !.max = 1,
          !.options = IF i = 2 THEN <<>> ELSE Options,
          !.scoringCategory = IF i = 2 THEN "exposure" ELSE ""]

\* "none": no question is conditional; "forward": question 2 is shown when
\* question 1 was answered "1"; "backward": question 1 is shown when the last
\* question was answered "1"
GateLogic(gate, i, n) ==
  IF gate = "forward" /\ i = 2
  THEN Logic("AND", <<Condition(QId(1), "equals", One)>>)
  ELSE IF gate = "backward" /\ i = 1
       THEN Logic("OR", <<Condition(QId(n), "equals", One)>>)
       ELSE NoLogic

Scoring ==
  [type |-> "composite",
   categories |-> <<Category("abandonment", 0, <<>>), Category("flooded", 0, <<>>),
                    Category("exposure", 0, <<>>)>>,
   groundZeroThreshold |-> NoGroundZero]

MakeQuiz(n, gate, randomize, back) ==
  [id |-> "quiz",
   questions |-> [i \in 1..n |-> BaseQuestion(i, GateLogic(gate, i, n))],
   scoring |-> Scoring,
   options |-> [randomizeQuestions |-> randomize, allowBackNavigation |-> back]]

\* webhookUrl is TRUE when a url is configured
EngineConfig(autoAdvance, persistAnswers) ==
  [autoAdvance |-> autoAdvance, persistAnswers |-> persistAnswers,
   webhookUrl |-> FALSE]

\* The engines the model runs, as <<quiz, config>> pairs: the gated quiz
\* under the default config (answers persisted, no auto-advance); the same
\* quiz under auto-advance without persistence; the same quiz shuffled, one
\* question shorter; the plain, the backward-gated and the no-back-navigation
\* quiz without persistence; and a quiz without questions.
Setups ==
  {<<MakeQuiz(NumQuestions, "forward", FALSE, TRUE), EngineConfig(FALSE, TRUE)>>,
   <<MakeQuiz(NumQuestions, "forward", FALSE, TRUE), EngineConfig(TRUE, FALSE)>>,
   <<MakeQuiz(NumQuestions - 1, "forward", TRUE, TRUE), EngineConfig(FALSE, TRUE)>>,
   <<MakeQuiz(NumQuestions, "none", FALSE, TRUE), EngineConfig(FALSE, FALSE)>>,
   <<MakeQuiz(NumQuestions, "backward", FALSE, TRUE), EngineConfig(FALSE, FALSE)>>,
   <<MakeQuiz(NumQuestions, "forward", FALSE, FALSE), EngineConfig(FALSE, FALSE)>>,
   <<MakeQuiz(0, "none", FALSE, TRUE), EngineConfig(FALSE, TRUE)>>}

SubmitValues == {Undefined, One, Two}

JumpIndexes == -1..NumQuestions

MetadataInputs == {[k \in {"email"} |-> Str(<<"a">>)]}

(***************************************************************************)
(* The state machine.  call records the call that produced the state: its  *)
(* name, argument, return value and emitted events, and the machine it     *)
(* started from.                                                           *)
(***************************************************************************)
Machine ==
  [state |-> state, questionOrder |-> questionOrder, handlers |-> eventHandlers,
   storage |-> storage, timers |-> timers, deliveries |-> deliveries,
   emitted |-> <<>>, delivered |-> <<>>, ret |-> NoReturn]

Pre ==
  [state |-> state, questionOrder |-> questionOrder, handlers |-> eventHandlers,
   storage |-> storage, timers |-> timers, deliveries |-> deliveries]

Commit(op, arg, m) ==
  /\ state' = m.state
  /\ questionOrder' = m.questionOrder
  /\ storage' = m.storage
  /\ timers' = m.timers
  /\ eventHandlers' = m.handlers
  /\ deliveries' = m.deliveries
  /\ call' = [op |-> op, arg |-> arg, ret |-> m.ret, emitted |-> m.emitted,
              delivered |-> m.delivered, pre |-> Pre]
  /\ UNCHANGED <<quiz, config, now>>

\* new QuizEngine(quiz, config) over an empty storage
Init ==
  /\ now = 0
  /\ \E setup \in Setups : quiz = setup[1] /\ config = setup[2]
  /\ questionOrder \in initializeQuestionOrder
  /\ state = initializeState
  /\ eventHandlers = NoHandlers
  /\ storage = NoItem
  /\ timers = 0
  /\ deliveries = <<>>
  /\ call = [op |-> "constructor", arg |-> Undefined, ret |-> NoReturn,
             emitted |-> <<>>, delivered |-> <<>>,
             pre |-> [state |-> initializeState, questionOrder |-> questionOrder,
                      handlers |-> NoHandlers, storage |-> NoItem, timers |-> 0,
                      deliveries |-> <<>>]]

Start == Commit("start", Undefined, start(Machine))

SubmitAnswer ==
  \E value \in SubmitValues :
    /\ config.autoAdvance => timers < MaxTimers
    /\ Commit("submitAnswer", value, submitAnswer(Machine, value))

Next_ == Commit("next", Undefined, next(Machine))

Previous == Commit("previous", Undefined, previous(Machine))

GoToQuestion ==
  \E index \in JumpIndexes : Commit("goToQuestion", index, goToQuestion(Machine, index))

Skip == Commit("skip", Undefined, skip(Machine))

SetMetadata ==
  \E metadata \in MetadataInputs :
    Commit("setMetadata", metadata, setMetadata(Machine, metadata))

Complete ==
  /\ config.webhookUrl => Len(deliveries) < MaxDeliveries
  /\ Commit("complete", Undefined, complete(Machine))

Restart ==
  \E order \in initializeQuestionOrder : Commit("restart", Undefined, restart(Machine, order))

\* a pending auto-advance timer fires: the deferred this.next()
AutoAdvance ==
  /\ timers > 0
  /\ Commit("autoAdvance", Undefined, next([Machine EXCEPT !.timers = @ - 1]))

Next ==
  \/ Start
  \/ SubmitAnswer
  \/ Next_
  \/ Previous
  \/ GoToQuestion
  \/ Skip
  \/ SetMetadata
  \/ Complete
  \/ Restart
  \/ AutoAdvance

Spec == Init /\ [][Next]_vars

\* a timer that was set fires: the event loop runs the callback of every
\* setTimeout once its delay has passed
LiveSetups ==
  {<<MakeQuiz(NumQuestions - 1, "forward", FALSE, TRUE), EngineConfig(TRUE, FALSE)>>,
   <<MakeQuiz(NumQuestions - 1, "forward", FALSE, TRUE), EngineConfig(FALSE, FALSE)>>}

LiveInit ==
  /\ Init!1
  /\ \E setup \in LiveSetups : quiz = setup[1] /\ config = setup[2]
  /\ Init!3
  /\ Init!4
  /\ Init!5
  /\ Init!6
  /\ Init!7
  /\ Init!8
  /\ Init!9

LiveNext ==
  \/ Start
  \/ SubmitAnswer
  \/ Next_
  \/ Previous
  \/ Skip
  \/ Complete
  \/ Restart
  \/ AutoAdvance

LiveSpec == LiveInit /\ [][LiveNext]_vars /\ WF_vars(AutoAdvance)

(***************************************************************************)
(* Sessions: the clock advances, the page is loaded again (a new engine is *)
(* constructed over the storage the last one left) and the storage item    *)
(* can be damaged.                                                         *)
(***************************************************************************)
RestoreSetups ==
  {<<MakeQuiz(NumQuestions - 1, "forward", TRUE, TRUE), EngineConfig(FALSE, TRUE)>>}

SessionValues == {Undefined, One, NaN}

\* what is not a call of the engine leaves the engine alone
Environment(op, arg) ==
  /\ call' = [op |-> op, arg |-> arg, ret |-> NoReturn, emitted |-> <<>>,
              delivered |-> <<>>, pre |-> Pre]
  /\ UNCHANGED <<quiz, config, state, questionOrder, eventHandlers, timers>>

RestoreInit ==
  /\ now = 0
  /\ \E setup \in RestoreSetups : quiz = setup[1] /\ config = setup[2]
  /\ questionOrder \in initializeQuestionOrder
  /\ state = initializeState
  /\ eventHandlers = NoHandlers
  /\ storage = NoItem
  /\ timers = 0
  /\ deliveries = <<>>
  /\ call = [op |-> "constructor", arg |-> Undefined, ret |-> NoReturn,
             emitted |-> <<>>, delivered |-> <<>>,
             pre |-> [state |-> initializeState, questionOrder |-> questionOrder,
                      handlers |-> NoHandlers, storage |-> NoItem, timers |-> 0,
                      deliveries |-> <<>>]]

SessionSubmit ==
  \E value \in SessionValues :
    Commit("submitAnswer", value, submitAnswer(Machine, value))

\* time passes: 24 hours, and then a millisecond at a time
Tick ==
  \E d \in {IF now = 0 THEN StaleAfterMs ELSE 1} :
    /\ now + d <= StaleAfterMs + MaxDrift
    /\ now' = now + d
    /\ Environment("tick", d)
    /\ UNCHANGED <<storage, deliveries>>

\* the page is loaded again: new QuizEngine(quiz, config)
Reload ==
  \E order \in initializeQuestionOrder :
    Commit("constructor", Undefined, constructor(Machine, order))

\* something else writes the storage item
StorageDamaged ==
  /\ storage # Unreadable
  /\ storage' = Unreadable
  /\ Environment("storageDamaged", Undefined)
  /\ UNCHANGED <<now, deliveries>>

\* the fetch of sendToWebhook resolves, or rejects and is caught and logged
WebhookSettles ==
  \E i \in 1..Len(deliveries), outcome \in {"resolved", "rejected"} :
    /\ deliveries' = SubSeq(deliveries, 1, i - 1) \o SubSeq(deliveries, i + 1, Len(deliveries))
    /\ Environment("webhookSettled", outcome)
    /\ UNCHANGED <<now, storage>>

RestoreNext ==
  \/ SessionSubmit
  \/ Next_
  \/ Restart
  \/ Tick
  \/ Reload
  \/ StorageDamaged

RestoreSpec == RestoreInit /\ [][RestoreNext]_vars

(***************************************************************************)
(* Subscriptions: handlers are subscribed with on() and unsubscribed with  *)
(* the function on() returned, between the calls of the engine.            *)
(***************************************************************************)
EventSetups ==
  {<<MakeQuiz(NumQuestions - 1, "none", FALSE, TRUE), EngineConfig(FALSE, FALSE)>>}

\* the handlers a page subscribes, and the event types it subscribes them to
Handlers == {"observer", "thrower"}

SubscribedTypes == {"quiz:question-skipped", "quiz:navigation"}

EventInit ==
  /\ RestoreInit!1
  /\ \E setup \in EventSetups : quiz = setup[1] /\ config = setup[2]
  /\ RestoreInit!3
  /\ RestoreInit!4
  /\ RestoreInit!5
  /\ RestoreInit!6
  /\ RestoreInit!7
  /\ RestoreInit!8
  /\ RestoreInit!9

On ==
  \E eventType \in SubscribedTypes, handler \in Handlers :
    /\ Len(eventHandlers[eventType]) < MaxHandlers
    /\ Commit("on", <<eventType, handler>>, on(Machine, eventType, handler))

\* an unsubscribe function is called whose handler is still in the list; a
\* call for a handler that is not in the list changes nothing
Unsubscribe ==
  \E eventType \in SubscribedTypes, handler \in Handlers :
    /\ IndexOf(eventHandlers[eventType], handler) > 0
    /\ Commit("unsubscribe", <<eventType, handler>>,
              unsubscribe(Machine, eventType, handler))

EventNext ==
  \/ SubmitAnswer
  \/ Next_
  \/ Previous
  \/ Skip
  \/ On
  \/ Unsubscribe

EventSpec == EventInit /\ [][EventNext]_vars

(***************************************************************************)
(* Delivery: handlers of 'quiz:navigation' are subscribed and unsubscribed *)
(* between the calls of the engine, one of them unsubscribing itself while *)
(* the event is delivered to it.                                           *)
(***************************************************************************)
DeliveryHandlers == {"observer", "leaver"}

Subscribe ==
  \E handler \in DeliveryHandlers :
    /\ Len(eventHandlers["quiz:navigation"]) < MaxHandlers + 1
    /\ Commit("on", <<"quiz:navigation", handler>>,
              on(Machine, "quiz:navigation", handler))

\* an unsubscribe function is called between two calls of the engine, its
\* handler in the list or not
Leave ==
  \E handler \in DeliveryHandlers :
    Commit("unsubscribe", <<"quiz:navigation", handler>>,
           unsubscribe(Machine, "quiz:navigation", handler))

DeliveryNext ==
  \/ Subscribe
  \/ Leave
  \/ Next_
  \/ Previous
  \/ GoToQuestion

DeliverySpec == EventInit /\ [][DeliveryNext]_vars

(***************************************************************************)
(* Completion: attempts are made and completed while the clock advances.   *)
(***************************************************************************)
CompletionSetups ==
  {<<MakeQuiz(NumQuestions - 1, "forward", FALSE, TRUE), EngineConfig(FALSE, TRUE)>>,
   <<MakeQuiz(NumQuestions - 1, "forward", FALSE, TRUE), EngineConfig(FALSE, FALSE)>>}

CompletionInit ==
  /\ RestoreInit!1
  /\ \E setup \in CompletionSetups : quiz = setup[1] /\ config = setup[2]
  /\ RestoreInit!3
  /\ RestoreInit!4
  /\ RestoreInit!5
  /\ RestoreInit!6
  /\ RestoreInit!7
  /\ RestoreInit!8
  /\ RestoreInit!9

CompletionNext ==
  \/ Start
  \/ SubmitAnswer
  \/ Next_
  \/ Previous
  \/ Complete
  \/ Restart
  \/ Tick

CompletionSpec == CompletionInit /\ [][CompletionNext]_vars

(***************************************************************************)
(* Result delivery: attempts are completed with and without a webhook, and *)
(* the webhook requests of complete() settle.                              *)
(***************************************************************************)
WebhookSetups ==
  {<<MakeQuiz(NumQuestions - 2, "none", FALSE, TRUE),
     [EngineConfig(FALSE, TRUE) EXCEPT !.webhookUrl = TRUE]>>,
   <<MakeQuiz(NumQuestions - 2, "none", FALSE, TRUE), EngineConfig(FALSE, TRUE)>>}

WebhookInit ==
  /\ RestoreInit!1
  /\ \E setup \in WebhookSetups : quiz = setup[1] /\ config = setup[2]
  /\ RestoreInit!3
  /\ RestoreInit!4
  /\ RestoreInit!5
  /\ RestoreInit!6
  /\ RestoreInit!7
  /\ RestoreInit!8
  /\ RestoreInit!9

WebhookNext ==
  \/ SubmitAnswer
  \/ Next_
  \/ Complete
  \/ Restart
  \/ WebhookSettles

WebhookSpec == WebhookInit /\ [][WebhookNext]_vars

(***************************************************************************)
(* The validator and the evaluator on their own: validateAnswer is applied *)
(* to questions of every validated type and evaluateCondition to           *)
(* conditions of every operator, over answers that are stored and answers  *)
(* that are not.                                                           *)
(***************************************************************************)
QuestionTypes ==
  {"single-choice", "multi-choice", "text-input", "slider", "likert", "binary"}

ValidatedQuestions ==
  {[Question("v", type, req, NoLogic)
      EXCEPT !.min = 1, !.max = 2, !.minSelections = 1, !.maxSelections = 1,
             !.minLength = 2, !.validationPattern = "^[0-9]+$"] :
     type \in QuestionTypes, req \in {"true", "false", "absent"}}

ValidatedValues ==
  {Undefined, Null, Str(<<>>), Str(<<" ">>), Str(<<" ", " ">>), Arr(<<>>),
   One, Str(<<" ", "1">>), Str(<<"a">>), Num(0), Num(1), Num(3), NaN,
   Arr(<<One>>), Arr(<<One, Two>>)}

ConditionOperators ==
  {"equals", "not-equals", "contains", "not-contains", "greater-than",
   "less-than", "in-range"}

ConditionValues ==
  {One, Str(<<>>), Str(<<"f", "i", "n", "e">>), Str(<<"y", "e", "s">>),
   Num(0), Num(1), Arr(<<>>), Arr(<<Num(0), Num(2)>>), Arr(<<One>>)}

Conditions ==
  {Condition(QId(1), operator, value) :
     operator \in ConditionOperators, value \in ConditionValues}

\* the answers the conditions are evaluated against: none, an answer for
\* another question only, and an answer for the question of the condition
AnswerRecord(id, value) == [questionId |-> id, value |-> value, timestamp |-> Date(now)]

ConditionStates ==
  {[initializeState EXCEPT !.answers = answers] :
     answers \in {EmptyMap, [id \in {QId(2)} |-> AnswerRecord(id, One)]}
                 \cup {[id \in {QId(1)} |-> AnswerRecord(id, value)] :
                         value \in {One, Num(1), Str(<<"y", "e", "s">>), Arr(<<One>>)}}}

ValidationInit ==
  /\ RestoreInit!1
  /\ \E setup \in EventSetups : quiz = setup[1] /\ config = setup[2]
  /\ RestoreInit!3
  /\ RestoreInit!4
  /\ RestoreInit!5
  /\ RestoreInit!6
  /\ RestoreInit!7
  /\ RestoreInit!8
  /\ RestoreInit!9

ValidateAnswer ==
  \E question \in ValidatedQuestions, value \in ValidatedValues :
    Commit("validateAnswer", [question |-> question, value |-> value],
           Return(Machine, validateAnswer(question, value)))

EvaluateCondition ==
  \E condition \in Conditions, st \in ConditionStates :
    Commit("evaluateCondition", [condition |-> condition, state |-> st],
           Return(Machine, evaluateCondition(condition, st)))

ValidationNext ==
  \/ ValidateAnswer
  \/ EvaluateCondition

ValidationSpec == ValidationInit /\ [][ValidationNext]_vars

(***************************************************************************)
(* Slider answers: numbers below, at and above the bounds of a slider over *)
(* 1..2 are submitted, with values that are not numbers.                   *)
(***************************************************************************)
SliderSetups ==
  {<<[MakeQuiz(NumQuestions - 1, "none", FALSE, TRUE) EXCEPT !.questions[2].max = 2],
     EngineConfig(FALSE, FALSE)>>}

SliderValues == {Undefined, One, NaN, Num(0), Num(1), Num(2), Num(3)}

SliderInit ==
  /\ RestoreInit!1
  /\ \E setup \in SliderSetups : quiz = setup[1] /\ config = setup[2]
  /\ RestoreInit!3
  /\ RestoreInit!4
  /\ RestoreInit!5
  /\ RestoreInit!6
  /\ RestoreInit!7
  /\ RestoreInit!8
  /\ RestoreInit!9

SliderSubmit ==
  \E value \in SliderValues :
    Commit("submitAnswer", value, submitAnswer(Machine, value))

SliderNext ==
  \/ SliderSubmit
  \/ Next_
  \/ Previous

SliderSpec == SliderInit /\ [][SliderNext]_vars

(***************************************************************************)
(* Scoring: the engine holds the answers of an attempt (as restored from a *)
(* snapshot, which restoreProgress takes without comparing it with the     *)
(* quiz) and the attempt is scored, completed or started again while the   *)
(* clock advances.                                                         *)
(***************************************************************************)
\* question 1 is a choice between a war and a doubled contribution,
\* question 2 a scenario whose options tag masks and a war, question 3 a
\* slider that scores its value, every further one a binary question
ScoredQuestion(i) ==
  IF i = 1
  THEN [Question(QId(i), "single-choice", "false", NoLogic) EXCEPT
          !.options =
            <<ChoiceOption(Str(<<"A">>), <<"a">>, One,
                           <<ScoreContribution("exposure", 1, Num(2))>>,
                           "abandonment", "", ""),
              ChoiceOption(Str(<<"B">>), <<"b">>, Two,
                           <<ScoreContribution("abandonment", 1, Undefined),
                             ScoreContribution("abandonment", 1, Undefined)>>,
                           "", "", "")>>]
  ELSE IF i = 2
  THEN [Question(QId(i), "scenario", "false", NoLogic) EXCEPT
          !.options =
            <<ChoiceOption(Str(<<"A">>), <<"a">>, One, <<>>, "", "flooded", ""),
              ChoiceOption(Str(<<"B">>), <<"b">>, Two,
                           <<ScoreContribution("flooded", 1, Undefined),
                             ScoreContribution("abandonment", -1, Undefined)>>,
                           "exposure", "armored", "")>>]
  ELSE IF i = 3
  THEN [Question(QId(i), "slider", "false", NoLogic) EXCEPT
          !.min = 1, !.max = 2, !.scoringCategory = "erasure"]
  ELSE [Question(QId(i), "binary", "false", NoLogic) EXCEPT
          !.scoringCategory = "entrapment"]

\* the answers a question accepts
AnswerChoices(question) ==
  IF question.type = "slider" THEN {Num(1), Num(2)}
  ELSE IF question.type = "binary" THEN {Num(0), Num(1)}
  ELSE {One, Two}

ScoringTypes ==
  {"highest-wins", "threshold", "weighted-average", "composite", "spectrum"}

GroundZero == [present |-> TRUE, minCategories |-> 2, maxSpread |-> 1, minScore |-> 1]

\* armored and flooded are configured in the reverse of their order in the
\* mask list; erasure and entrapment are not configured
ScoringConfigs ==
  {[type |-> type,
    categories |-> <<Category("armored", 0, <<>>), Category("exposure", 0, <<>>),
                     Category("abandonment", 0, <<>>), Category("flooded", 0, <<>>)>>,
    groundZeroThreshold |-> gz] :
     type \in ScoringTypes, gz \in {NoGroundZero, GroundZero}}

ScoringSetups ==
  {<<[id |-> "quiz",
      questions |-> [i \in 1..NumQuestions |-> ScoredQuestion(i)],
      scoring |-> scoring,
      options |-> [randomizeQuestions |-> FALSE, allowBackNavigation |-> TRUE]],
     EngineConfig(FALSE, FALSE)>> : scoring \in ScoringConfigs}

\* an answer under an id that no question of the quiz has
ForeignAnswers == {EmptyMap, [id \in {QId(0)} |-> AnswerRecord(id, One)]}

\* the answer maps: every question is unanswered or has one of its choices
ScoredAnswers ==
  LET ids == {quiz.questions[i].id : i \in 1..Len(quiz.questions)}
      questionOf(id) == quiz.questions[CHOOSE i \in 1..Len(quiz.questions) :
                                         quiz.questions[i].id = id]
  IN UNION {
       {[id \in answered \cup DOMAIN foreign |->
           IF id \in answered THEN AnswerRecord(id, values[id]) ELSE foreign[id]] :
          values \in [answered -> UNION {AnswerChoices(questionOf(id)) : id \in answered}],
          foreign \in ForeignAnswers}
       : answered \in SUBSET ids}

ScoringInit ==
  /\ now = 0
  /\ \E setup \in ScoringSetups : quiz = setup[1] /\ config = setup[2]
  /\ questionOrder \in initializeQuestionOrder
  /\ \E answers \in ScoredAnswers :
       /\ \A id \in DOMAIN answers :
            \A i \in 1..Len(quiz.questions) :
              quiz.questions[i].id = id
              => answers[id].value \in AnswerChoices(quiz.questions[i])
       /\ state = [initializeState EXCEPT !.answers = answers]
  /\ eventHandlers = NoHandlers
  /\ storage = NoItem
  /\ timers = 0
  /\ deliveries = <<>>
  /\ call = [op |-> "constructor", arg |-> Undefined, ret |-> NoReturn,
             emitted |-> <<>>, delivered |-> <<>>,
             pre |-> [state |-> state, questionOrder |-> questionOrder,
                      handlers |-> NoHandlers, storage |-> NoItem, timers |-> 0,
                      deliveries |-> <<>>]]

\* new ScoringEngine(quiz).calculateResults(engine.getState())
CalculateResults ==
  Commit("calculateResults", Undefined, Return(Machine, calculateResults(state)))

\* time passes between two calls of the scoring engine
Elapse ==
  /\ now < MaxDrift
  /\ now' = now + 1
  /\ UNCHANGED <<quiz, config, state, questionOrder, eventHandlers, storage,
                 timers, deliveries, call>>

ScoringNext ==
  \/ CalculateResults
  \/ Complete
  \/ Start
  \/ Elapse

ScoringSpec == ScoringInit /\ [][ScoringNext]_vars

(***************************************************************************)
(* Ground zero: checkGroundZero is applied to score maps of the four war   *)
(* categories under several ground-zero configurations and under none.     *)
(***************************************************************************)
GroundZeroConfigs ==
  {NoGroundZero,
   [present |-> TRUE, minCategories |-> 3, maxSpread |-> 2, minScore |-> 3],
   [present |-> TRUE, minCategories |-> 2, maxSpread |-> 0, minScore |-> 0],
   [present |-> TRUE, minCategories |-> 0, maxSpread |-> 1, minScore |-> 5]}

\* a war category has no entry or a score of 1, 3 or 4
WarScoreChoices == {-1, 1, 3, 4}

RECURSIVE WarScores(_, _)
WarScores(choice, i) ==
  IF i > Len(WarCategories) THEN <<>>
  ELSE (IF choice[i] < 0 THEN <<>> ELSE <<<<WarCategories[i], choice[i]>>>>)
       \o WarScores(choice, i + 1)

GroundZeroInit ==
  /\ RestoreInit!1
  /\ \E gz \in GroundZeroConfigs :
       /\ quiz = [MakeQuiz(NumQuestions - 2, "none", FALSE, TRUE)
                    EXCEPT !.scoring.groundZeroThreshold = gz]
       /\ config = EngineConfig(FALSE, FALSE)
  /\ RestoreInit!3
  /\ RestoreInit!4
  /\ RestoreInit!5
  /\ RestoreInit!6
  /\ RestoreInit!7
  /\ RestoreInit!8
  /\ RestoreInit!9

CheckGroundZero ==
  \E choice \in [1..Len(WarCategories) -> WarScoreChoices] :
    Commit("checkGroundZero", WarScores(choice, 1),
           Return(Machine, checkGroundZero(WarScores(choice, 1))))

GroundZeroNext == CheckGroundZero

GroundZeroSpec == GroundZeroInit /\ [][GroundZeroNext]_vars

(***************************************************************************)
(* Properties.  PreM is the machine the last call started from.            *)
(***************************************************************************)
PreM ==
  [state |-> call.pre.state, questionOrder |-> call.pre.questionOrder,
   handlers |-> call.pre.handlers, storage |-> call.pre.storage,
   timers |-> call.pre.timers, deliveries |-> call.pre.deliveries,
   emitted |-> <<>>, delivered |-> <<>>, ret |-> NoReturn]

\* the last call left the engine, the storage and the timers as they were
Untouched ==
  /\ state = call.pre.state
  /\ questionOrder = call.pre.questionOrder
  /\ eventHandlers = call.pre.handlers
  /\ storage = call.pre.storage
  /\ timers = call.pre.timers
  /\ deliveries = call.pre.deliveries

\* the question at position p of the question order is visible against the
\* answers the last call started from
VisibleBefore(p) == IsVisible(getQuestion(PreM, p), call.pre.state)

EventTypes == [i \in 1..Len(call.emitted) |-> call.emitted[i].type]

\* C1: a submitAnswer whose value fails validation against the current
\* question returns the validation errors with isValid = FALSE and leaves the
\* answers, the cursor, the metadata, the storage and the timers as they
\* were, emitting no event.
C1_FailedSubmitChangesNothing ==
  (/\ call.op = "submitAnswer"
   /\ getCurrentQuestion(PreM) # NullQuestion
   /\ ~validateAnswer(getCurrentQuestion(PreM), call.arg).isValid)
  => /\ call.ret = validateAnswer(getCurrentQuestion(PreM), call.arg)
     /\ call.ret.isValid = FALSE
     /\ call.ret.errors # <<>>
     /\ Untouched
     /\ call.emitted = <<>>

\* a slider answer out of range was refused while another answer was stored
C1_Witness ==
  /\ call.op = "submitAnswer"
  /\ call.ret.isValid = FALSE
  /\ call.ret.errors[1].code = "out-of-range"
  /\ DOMAIN state.answers # {}
  /\ storage.present

\* C2: a submitAnswer that succeeds stores under the id of the question
\* under the cursor a record holding exactly the value, leaves every other
\* answer and the cursor unchanged, and emits exactly one 'answered' event,
\* whose handlers already see the stored answer.
C2_SubmitStoresAnswer ==
  (/\ call.op = "submitAnswer"
   /\ getCurrentQuestion(PreM) # NullQuestion
   /\ validateAnswer(getCurrentQuestion(PreM), call.arg).isValid)
  => LET id == getCurrentQuestion(PreM).id
     IN /\ call.ret.isValid
        /\ DOMAIN state.answers = DOMAIN call.pre.state.answers \cup {id}
        /\ state.answers[id].value = call.arg
        /\ state.answers[id].questionId = id
        /\ \A other \in DOMAIN call.pre.state.answers \ {id} :
             state.answers[other] = call.pre.state.answers[other]
        /\ state.currentQuestionIndex = call.pre.state.currentQuestionIndex
        /\ EventTypes = <<"quiz:question-answered">>
        /\ call.emitted[1].data.questionId = id
        /\ call.emitted[1].data.value = call.arg
        /\ id \in DOMAIN call.emitted[1].state.answers
        /\ call.emitted[1].state.answers[id].value = call.arg

\* an answer was replaced while another question's answer was kept
C2_Witness ==
  /\ call.op = "submitAnswer"
  /\ call.ret.isValid
  /\ \E id \in DOMAIN call.pre.state.answers :
       /\ id = getCurrentQuestion(PreM).id
       /\ call.pre.state.answers[id].value # call.arg
  /\ Cardinality(DOMAIN state.answers) >= 2

\* C3: when next() returns true the new cursor is the smallest position
\* after the old cursor whose question is visible against the current
\* answers, every position in between holds a hidden question, exactly one
\* 'navigation' event is emitted and the answers map is unchanged.
C3_NextFindsNextVisible ==
  (call.op = "next" /\ call.ret = TRUE)
  => /\ state.currentQuestionIndex > call.pre.state.currentQuestionIndex
     /\ state.currentQuestionIndex < Len(quiz.questions)
     /\ VisibleBefore(state.currentQuestionIndex)
     /\ \A p \in (call.pre.state.currentQuestionIndex + 1)..(state.currentQuestionIndex - 1) :
          ~VisibleBefore(p)
     /\ EventTypes = <<"quiz:navigation">>
     /\ call.emitted[1].data = [direction |-> "next", index |-> state.currentQuestionIndex]
     /\ state.answers = call.pre.state.answers

\* next() passed over a hidden question that keeps its stored answer
C3_Witness ==
  /\ call.op = "next"
  /\ call.ret = TRUE
  /\ state.currentQuestionIndex >= call.pre.state.currentQuestionIndex + 2
  /\ \E p \in (call.pre.state.currentQuestionIndex + 1)..(state.currentQuestionIndex - 1) :
       getQuestion(PreM, p).id \in DOMAIN state.answers

\* C4: when no visible question exists after the cursor, next() returns
\* false and changes nothing (cursor, answers, storage), emits no event, and
\* a further next() does the same.
C4_NextAtEndChangesNothing ==
  (/\ call.op = "next"
   /\ \A p \in (call.pre.state.currentQuestionIndex + 1)..(Len(quiz.questions) - 1) :
        ~VisibleBefore(p))
  => /\ call.ret = FALSE
     /\ Untouched
     /\ call.emitted = <<>>
     /\ next(Machine) = Return(Machine, FALSE)

\* next() was refused although positions remain after the cursor, each
\* holding a hidden question
C4_Witness ==
  /\ call.op = "next"
  /\ call.ret = FALSE
  /\ Len(quiz.questions) > 0
  /\ state.currentQuestionIndex < Len(quiz.questions) - 1

\* C5: next(), issued by the caller or by the auto-advance timer, never
\* moves the cursor off a visible required question that has no stored
\* non-empty answer.
C5_NextGatedByValidation ==
  (/\ call.op \in {"next", "autoAdvance"}
   /\ getCurrentQuestion(PreM) # NullQuestion
   /\ IsVisible(getCurrentQuestion(PreM), call.pre.state)
   /\ getCurrentQuestion(PreM).required # "false"
   /\ isEmpty(AnswerValue(call.pre.state, getCurrentQuestion(PreM).id)))
  => state.currentQuestionIndex = call.pre.state.currentQuestionIndex

\* C6: in every reachable state the current-question pointer is an index of
\* a question (0 <= pointer < number of questions) or the number of
\* questions itself, the one out-of-bounds value; it is never negative.
C6_CursorInBounds ==
  /\ state.currentQuestionIndex >= 0
  /\ state.currentQuestionIndex <= Len(quiz.questions)

\* previous() was refused at position 1 because the question before is hidden
C6_Witness ==
  /\ call.op = "previous"
  /\ quiz.options.allowBackNavigation
  /\ call.ret = FALSE
  /\ state.currentQuestionIndex = 1
  /\ state.completedAt # NoDate

\* the operation whose return the claim C7 speaks of has just returned
NavigationReturned ==
  \/ call.op \in {"start", "restart"}
  \/ (call.op \in {"next", "previous", "goToQuestion", "skip"} /\ call.ret = TRUE)

\* C7: whenever start(), restart() or a successful next(), previous(),
\* goToQuestion() or skip() returns, the question under the cursor has no
\* conditionalDisplay or one that evaluates true against the stored answers.
C7_NoHiddenNavigationStop ==
  (NavigationReturned /\ getCurrentQuestion(Machine) # NullQuestion)
  => IsVisible(getCurrentQuestion(Machine), state)

\* the positions before the old cursor whose question was visible
EarlierVisible ==
  {p \in 0..(call.pre.state.currentQuestionIndex - 1) : VisibleBefore(p)}

\* C8: previous() returns false and changes nothing unless the quiz allows
\* back-navigation and some question before the cursor is visible; then it
\* returns true and the cursor is the largest such position.  The cursor
\* never goes below 0.
C8_PreviousMirrorsNext ==
  call.op = "previous"
  => IF ~quiz.options.allowBackNavigation \/ EarlierVisible = {}
     THEN call.ret = FALSE /\ Untouched /\ call.emitted = <<>>
     ELSE /\ call.ret = TRUE
          /\ state.currentQuestionIndex \in EarlierVisible
          /\ \A p \in EarlierVisible : p <= state.currentQuestionIndex
          /\ state.currentQuestionIndex >= 0
          /\ state.answers = call.pre.state.answers
          /\ EventTypes = <<"quiz:navigation">>

\* previous() went back over a hidden question
C8_Witness ==
  /\ call.op = "previous"
  /\ call.ret = TRUE
  /\ state.currentQuestionIndex <= call.pre.state.currentQuestionIndex - 2

\* C9: goToQuestion(index) returns false, leaves the cursor unchanged and
\* emits no event when index is outside 0..N-1 or the question at that
\* position is hidden against the current answers; otherwise it sets the
\* cursor to index, emits one 'navigation' event and returns true.
C9_GoToQuestionChecksTarget ==
  call.op = "goToQuestion"
  => IF call.arg \notin 0..(Len(quiz.questions) - 1) \/ ~VisibleBefore(call.arg)
     THEN call.ret = FALSE /\ Untouched /\ call.emitted = <<>>
     ELSE /\ call.ret = TRUE
          /\ state.currentQuestionIndex = call.arg
          /\ EventTypes = <<"quiz:navigation">>
          /\ call.emitted[1].data = [direction |-> "jump", index |-> call.arg]
          /\ state.answers = call.pre.state.answers

\* a jump to a hidden question that has a stored answer was refused
C9_Witness ==
  /\ call.op = "goToQuestion"
  /\ call.ret = FALSE
  /\ call.arg \in 0..(Len(quiz.questions) - 1)
  /\ getQuestion(PreM, call.arg).id \in DOMAIN state.answers

\* the 'skipped' event skip() emits for the question under the old cursor
SkippedEvent ==
  emit(PreM, "quiz:question-skipped",
       [questionId |-> getCurrentQuestion(PreM).id,
        questionIndex |-> call.pre.state.currentQuestionIndex]).emitted

\* C10: skip() on a question whose required flag is true or absent returns
\* false, emits no event and changes nothing; on a non-required question it
\* emits one 'skipped' event and then has exactly the effect, the events and
\* the return value of next(), and stores no answer.
C10_SkipOnlyOptional ==
  call.op = "skip"
  => IF getCurrentQuestion(PreM).required # "false"
     THEN call.ret = FALSE /\ Untouched /\ call.emitted = <<>>
     ELSE /\ call.emitted = SkippedEvent \o next(PreM).emitted
          /\ call.ret = next(PreM).ret
          /\ state = next(PreM).state
          /\ storage = next(PreM).storage
          /\ timers = next(PreM).timers
          /\ questionOrder = call.pre.questionOrder
          /\ state.answers = call.pre.state.answers

\* an optional question without an answer was skipped and the cursor moved
C10_Witness ==
  /\ call.op = "skip"
  /\ call.ret = TRUE
  /\ EventTypes = <<"quiz:question-skipped", "quiz:navigation">>
  /\ getCurrentQuestion(PreM).id \notin DOMAIN state.answers

\* the question orders start() can leave behind, from the order it is called on
StartOrders == {start(PreM).questionOrder}

\* C11: start() leaves a fresh state (no answers, cursor 0, start timestamp
\* now, no completion timestamp, no metadata), emits exactly one 'started'
\* event, and on a quiz that asks for randomized questions draws the question
\* order again: every order a draw can give is an order start() can leave.
C11_StartResetsAndShuffles ==
  call.op = "start"
  => /\ state.answers = EmptyMap
     /\ state.currentQuestionIndex = 0
     /\ state.startedAt = Date(now)
     /\ state.completedAt = NoDate
     /\ state.metadata = EmptyMap
     /\ EventTypes = <<"quiz:started">>
     /\ quiz.options.randomizeQuestions => initializeQuestionOrder \subseteq StartOrders

\* the part of C11 that start() does meet: the fresh state and the event
StartResetsState ==
  call.op = "start"
  => /\ state = initializeState
     /\ questionOrder = call.pre.questionOrder
     /\ EventTypes = <<"quiz:started">>

C14_DeliveryIsIsolated ==
  /\ call.op = "complete"
     => /\ state.completedAt = Date(now)
        /\ call.ret = calculateResults(state)
        /\ IF config.webhookUrl
           THEN /\ Len(deliveries) = Len(call.pre.deliveries) + 1
                /\ SubSeq(deliveries, 1, Len(call.pre.deliveries)) = call.pre.deliveries
                /\ deliveries[Len(deliveries)].result = call.ret
           ELSE deliveries = call.pre.deliveries
  /\ call.op = "webhookSettled"
     => /\ state = call.pre.state
        /\ questionOrder = call.pre.questionOrder
        /\ storage = call.pre.storage
        /\ timers = call.pre.timers
        /\ Len(deliveries) = Len(call.pre.deliveries) - 1
  /\ call.op \notin {"complete", "webhookSettled"} => deliveries = call.pre.deliveries
  /\ ~config.webhookUrl => deliveries = <<>>

\* the request of a completed attempt was rejected while the request of
\* another completion is still in flight
C14_Witness ==
  /\ call.op = "webhookSettled"
  /\ call.arg = "rejected"
  /\ state.completedAt # NoDate
  /\ state.answers # EmptyMap
  /\ Len(deliveries) = 1

\* the handler invocations the events of the last call are due: for each
\* event in emission order, the handlers subscribed to its type when the
\* call began, in subscription order, once per subscription
RECURSIVE Fanout(_)
Fanout(events) ==
  IF events = <<>> THEN <<>>
  ELSE LET event == Head(events)
           subscribed == call.pre.handlers[event.type]
       IN [i \in 1..Len(subscribed) |-> [handler |-> subscribed[i], event |-> event]]
          \o Fanout(Tail(events))

\* the last call made again on an engine without subscribed handlers
Unobserved ==
  LET quiet == [PreM EXCEPT !.handlers = NoHandlers]
  IN CASE call.op = "submitAnswer" -> submitAnswer(quiet, call.arg)
       [] call.op = "next" -> next(quiet)
       [] call.op = "previous" -> previous(quiet)
       [] call.op = "skip" -> skip(quiet)
       [] OTHER -> quiet

TimersAccounted ==
  /\ call.op = "submitAnswer"
     => /\ timers = call.pre.timers
                    + (IF config.autoAdvance /\ call.ret.isValid THEN 1 ELSE 0)
        /\ state.currentQuestionIndex = call.pre.state.currentQuestionIndex
  /\ call.op = "autoAdvance"
     => /\ timers = call.pre.timers - 1
        /\ state = next(PreM).state
        /\ storage = next(PreM).storage
        /\ call.ret = next(PreM).ret
        /\ call.emitted = next(PreM).emitted
  /\ call.op \notin {"submitAnswer", "autoAdvance"} => timers = call.pre.timers
  /\ ~config.autoAdvance => timers = 0

\* C16: with autoAdvance, a submitAnswer that succeeds sets exactly one
\* timer and returns with the cursor where it was; a submitAnswer that fails,
\* or any submitAnswer without autoAdvance, sets none; a timer that fires
\* does what next() does; and every timer that is set fires in the end:
\* timers fire in the order they were set, so each one fires when again and
\* again no timer is pending, or when timers fire again and again.
C16_AutoAdvanceRuns ==
  /\ []TimersAccounted
  /\ ([]<>(timers = 0) \/ []<><<AutoAdvance>>_vars)

\* one of two pending timers fired and moved the cursor
C16_Witness ==
  /\ call.op = "autoAdvance"
  /\ call.pre.timers = 2
  /\ timers = 1
  /\ call.ret = TRUE
  /\ state.currentQuestionIndex = call.pre.state.currentQuestionIndex + 1

\* the storage item the engine was constructed over is a snapshot taken of
\* the engine that was running before, and it is not older than 24 hours
SnapshotOfEngine ==
  /\ call.op = "constructor"
  /\ config.persistAnswers
  /\ call.pre.storage.present
  /\ Parses(call.pre.storage)
  /\ call.pre.storage.state = JsonState(call.pre.state)
  /\ call.pre.storage.questionOrder = call.pre.questionOrder
  /\ now - call.pre.storage.savedAt.ms <= StaleAfterMs

QuestionIds == {quiz.questions[i].id : i \in 1..Len(quiz.questions)}

\* C17: an engine constructed over a snapshot taken of another engine within
\* the last 24 hours has the current question, the answer value of every
\* question id and the progress percentage of that engine.
C17_RestoreRoundTrip ==
  SnapshotOfEngine
  => /\ getCurrentQuestion(Machine) = getCurrentQuestion(PreM)
     /\ \A id \in QuestionIds :
          AnswerValue(state, id) = AnswerValue(call.pre.state, id)
     /\ getProgress(Machine) = getProgress(PreM)

\* the round trip of C17 for the engines that hold no NaN answer
RoundTripWithoutNaN ==
  (SnapshotOfEngine
   /\ \A id \in DOMAIN call.pre.state.answers : call.pre.state.answers[id].value # NaN)
  => /\ getCurrentQuestion(Machine) = getCurrentQuestion(PreM)
     /\ \A id \in QuestionIds :
          AnswerValue(state, id) = AnswerValue(call.pre.state, id)
     /\ getProgress(Machine) = getProgress(PreM)
     /\ questionOrder = call.pre.questionOrder
     /\ state.currentQuestionIndex = call.pre.state.currentQuestionIndex

\* an engine with an answer, away from the first question, in an order other
\* than the definition order, was restored from its snapshot
RoundTripReached ==
  /\ SnapshotOfEngine
  /\ call.pre.state.answers # EmptyMap
  /\ call.pre.state.currentQuestionIndex > 0
  /\ call.pre.questionOrder # Identity(Len(quiz.questions))
  /\ state.answers # EmptyMap

\* C18: an engine constructed with persistAnswers over a snapshot saved more
\* than 24 hours ago has the fresh initial state and has removed the
\* snapshot; over a snapshot not older than that it has the snapshot's
\* answers, cursor and question order; over no item, or an item that does
\* not parse, it has the fresh initial state and the storage is as it was.
C18_RestoreChecksAge ==
  (call.op = "constructor" /\ config.persistAnswers)
  => LET saved == call.pre.storage
     IN IF ~saved.present \/ ~Parses(saved)
        THEN /\ state = initializeState
             /\ questionOrder \in initializeQuestionOrder
             /\ storage = saved
        ELSE IF now - saved.savedAt.ms > StaleAfterMs
             THEN /\ state = initializeState
                  /\ state.answers = EmptyMap
                  /\ state.currentQuestionIndex = 0
                  /\ questionOrder \in initializeQuestionOrder
                  /\ storage = NoItem
             ELSE /\ state.answers = saved.state.answers
                  /\ state.currentQuestionIndex = saved.state.currentQuestionIndex
                  /\ state.metadata = saved.state.metadata
                  /\ state.startedAt = Date(saved.state.startedAt.ms)
                  /\ questionOrder = saved.questionOrder
                  /\ storage = saved

\* a snapshot with an answer, saved 24 hours and a millisecond before, was
\* discarded
C18_Witness ==
  /\ call.op = "constructor"
  /\ call.pre.storage.present
  /\ Parses(call.pre.storage)
  /\ call.pre.storage.state.answers # EmptyMap
  /\ now - call.pre.storage.savedAt.ms = StaleAfterMs + 1
  /\ state.answers = EmptyMap
  /\ storage = NoItem

\* a snapshot saved exactly 24 hours before was restored
RestoredAtTheLimit ==
  /\ call.op = "constructor"
  /\ call.pre.storage.present
  /\ Parses(call.pre.storage)
  /\ now - call.pre.storage.savedAt.ms = StaleAfterMs
  /\ state.answers # EmptyMap

\* an engine was constructed over an item that does not parse
UnreadableReached ==
  /\ call.op = "constructor"
  /\ call.pre.storage = Unreadable
  /\ call.pre.state.answers # EmptyMap

VisibleNow == {i \in 1..Len(quiz.questions) : IsVisible(quiz.questions[i], state)}

AnsweredNow == {i \in VisibleNow : ~isEmpty(AnswerValue(state, quiz.questions[i].id))}

\* C20: getProgress() is 100 when no question is visible; otherwise it is
\* the integer nearest to 100 * A / V, a half rounding up, where V counts the
\* visible questions and A the visible questions with a non-empty answer.
\* It lies between 0 and 100.
C20_ProgressOverVisible ==
  LET p == getProgress(Machine)
      V == Cardinality(VisibleNow)
      A == Cardinality(AnsweredNow)
  IN /\ p \in 0..100
     /\ IF V = 0 THEN p = 100
        ELSE /\ 200 * A - V < 2 * V * p
             /\ 2 * V * p <= 200 * A + V

\* a hidden question has a non-empty answer, and one of the two visible
\* questions has one: progress is 50
C20_Witness ==
  /\ getProgress(Machine) = 50
  /\ Cardinality(VisibleNow) = 2
  /\ \E i \in 1..Len(quiz.questions) :
       /\ i \notin VisibleNow
       /\ ~isEmpty(AnswerValue(state, quiz.questions[i].id))
\* the required questions (required true or absent) that are hidden and
\* those that are visible against the current answers
HiddenRequired ==
  {i \in 1..Len(quiz.questions) :
     quiz.questions[i].required # "false" /\ ~IsVisible(quiz.questions[i], state)}

VisibleRequired ==
  {i \in 1..Len(quiz.questions) :
     quiz.questions[i].required # "false" /\ IsVisible(quiz.questions[i], state)}

\* C21: a required question that is hidden against the current answers is
\* not among getUnansweredQuestions and does not make isQuizComplete false,
\* with or without a stored answer; isQuizComplete is true exactly when
\* every visible required question has a non-empty stored answer.
C21_HiddenRequiredIgnored ==
  LET unanswered == getUnansweredQuestions(quiz.questions, state)
  IN /\ \A i \in HiddenRequired :
          \A k \in 1..Len(unanswered) : unanswered[k].id # quiz.questions[i].id
     /\ isQuizComplete(quiz.questions, state)
        <=> \A i \in VisibleRequired :
              ~isEmpty(AnswerValue(state, quiz.questions[i].id))
     /\ isComplete(Machine) = isQuizComplete(quiz.questions, state)

\* the quiz is complete while a required question is hidden with a stored
\* answer, after having been incomplete with that question hidden
C21_Witness ==
  /\ isQuizComplete(quiz.questions, state)
  /\ ~isQuizComplete(quiz.questions, call.pre.state)
  /\ VisibleRequired # {}
  /\ \E i \in HiddenRequired :
       ~isEmpty(AnswerValue(state, quiz.questions[i].id))

\* the quiz is complete while a required question is hidden without any
\* stored answer
HiddenUnansweredReached ==
  /\ isQuizComplete(quiz.questions, state)
  /\ VisibleRequired # {}
  /\ \E i \in HiddenRequired : quiz.questions[i].id \notin DOMAIN state.answers

\* the positions before the cursor whose question is visible against the
\* current answers: the visible questions the engine traverses before the
\* current one
VisibleBeforeCursor ==
  {p \in 0..(state.currentQuestionIndex - 1) :
     IsVisible(getQuestion(Machine, p), state)}

\* C22: when there is a current question, getCurrentVisibleIndex() is the
\* number of visible questions before it in the order the engine traverses
\* them and lies in 0..getTotalQuestions() - 1; getTotalQuestions() is the
\* number of visible questions.
C22_VisibleIndexIsPosition ==
  /\ getTotalQuestions(Machine) = Cardinality(VisibleNow)
  /\ getCurrentQuestion(Machine) # NullQuestion
     => /\ getCurrentVisibleIndex(Machine) = Cardinality(VisibleBeforeCursor)
        /\ 0 <= getCurrentVisibleIndex(Machine)
        /\ getCurrentVisibleIndex(Machine) < getTotalQuestions(Machine)

\* the same for a current question that is visible: the index is in range
\* and, in a quiz that keeps the definition order, it is the position
VisibleIndexOfVisibleQuestion ==
  (/\ getCurrentQuestion(Machine) # NullQuestion
   /\ IsVisible(getCurrentQuestion(Machine), state))
  => /\ getCurrentVisibleIndex(Machine) \in 0..(getTotalQuestions(Machine) - 1)
     /\ questionOrder = Identity(Len(quiz.questions))
        => getCurrentVisibleIndex(Machine) = Cardinality(VisibleBeforeCursor)

\* on a shuffled order the index of a visible current question is not the
\* number of visible questions traversed before it
ShuffledIndexReached ==
  /\ getCurrentQuestion(Machine) # NullQuestion
  /\ IsVisible(getCurrentQuestion(Machine), state)
  /\ getCurrentVisibleIndex(Machine) # Cardinality(VisibleBeforeCursor)

\* the current question is hidden and the index is -1
HiddenIndexReached ==
  /\ getCurrentQuestion(Machine) # NullQuestion
  /\ ~IsVisible(getCurrentQuestion(Machine), state)
  /\ getCurrentVisibleIndex(Machine) = -1

\* the last call evaluated a condition on a question that has no stored
\* answer
NoStoredAnswer ==
  /\ call.op = "evaluateCondition"
  /\ call.arg.condition.questionId \notin DOMAIN call.arg.state.answers

\* a question whose conditionalDisplay is the AND of the one condition
GatedOn(condition) ==
  Question("gated", "single-choice", "absent", Logic("AND", <<condition>>))

\* C23: a condition with operator equals, contains, greater-than, less-than
\* or in-range on a question that has no stored answer evaluates to false,
\* whatever its value, and a question gated (AND) on it is hidden.
C23_AbsentAnswerComparesFalse ==
  (/\ NoStoredAnswer
   /\ call.arg.condition.operator
        \in {"equals", "contains", "greater-than", "less-than", "in-range"})
  => /\ call.ret = FALSE
     /\ ~IsVisible(GatedOn(call.arg.condition), call.arg.state)

\* the same without contains: equality and the numeric comparisons against
\* an absent answer are false
AbsentAnswerOrdersFalse ==
  (/\ NoStoredAnswer
   /\ call.arg.condition.operator
        \in {"equals", "greater-than", "less-than", "in-range"})
  => /\ call.ret = FALSE
     /\ ~IsVisible(GatedOn(call.arg.condition), call.arg.state)

\* a contains condition on a question without an answer was evaluated for a
\* value that is not part of the text "undefined", and was false
ContainsOnAbsentReached ==
  /\ NoStoredAnswer
  /\ call.arg.condition.operator = "contains"
  /\ call.arg.condition.value = Str(<<"y", "e", "s">>)
  /\ call.ret = FALSE

\* C24: a condition with operator not-equals or not-contains on a question
\* that has no stored answer evaluates to true, and a question gated only on
\* it is visible, and so counted among the visible questions, before the
\* gating question has an answer.
C24_NegatedOnAbsentIsTrue ==
  (/\ NoStoredAnswer
   /\ call.arg.condition.operator \in {"not-equals", "not-contains"})
  => /\ call.ret = TRUE
     /\ IsVisible(GatedOn(call.arg.condition), call.arg.state)

\* the same for not-equals alone
NotEqualsOnAbsentIsTrue ==
  (/\ NoStoredAnswer
   /\ call.arg.condition.operator = "not-equals")
  => /\ call.ret = TRUE
     /\ IsVisible(GatedOn(call.arg.condition), call.arg.state)

\* the same for not-contains and a value that is not part of the text
\* "undefined"
NotContainsOnAbsentIsTrue ==
  (/\ NoStoredAnswer
   /\ call.arg.condition.operator = "not-contains"
   /\ ~StringIncludes(<<"u", "n", "d", "e", "f", "i", "n", "e", "d">>,
                      ToStringChars(call.arg.condition.value)))
  => /\ call.ret = TRUE
     /\ IsVisible(GatedOn(call.arg.condition), call.arg.state)

\* the values the validator is specified to treat as empty: undefined,
\* null, a string of nothing but blanks, a sequence without elements
EmptyValue(value) ==
  \/ value = Undefined
  \/ value = Null
  \/ (value.t = "string" /\ \A i \in 1..Len(value.s) : value.s[i] = " ")
  \/ (value.t = "array" /\ value.a = <<>>)

\* C25: validateAnswer on a required question (required true or absent) and
\* an empty value returns isValid = FALSE with exactly one error, of code
\* 'required', for the question; on a question with required false an empty
\* value is valid without errors.
C25_EmptyValueRequiredOnly ==
  (call.op = "validateAnswer" /\ EmptyValue(call.arg.value))
  => IF call.arg.question.required \in {"true", "absent"}
     THEN /\ call.ret.isValid = FALSE
          /\ call.ret.errors = <<Error(call.arg.question.id, "required")>>
     ELSE /\ call.ret.isValid = TRUE
          /\ call.ret.errors = <<>>

\* a required slider was given a blank string, which its own check would
\* report as 'invalid-format': the one error is 'required'
C25_Witness ==
  /\ call.op = "validateAnswer"
  /\ call.arg.question.type = "slider"
  /\ call.arg.question.required = "absent"
  /\ call.arg.value = Str(<<" ", " ">>)
  /\ validateSlider(call.arg.question, call.arg.value) # <<>>
  /\ Len(call.ret.errors) = 1
  /\ call.ret.errors[1].code = "required"

\* an optional multi-choice question with a minimum of selections was given
\* the empty sequence and accepted it
OptionalEmptyReached ==
  /\ call.op = "validateAnswer"
  /\ call.arg.question.type = "multi-choice"
  /\ call.arg.question.required = "false"
  /\ call.arg.value = Arr(<<>>)
  /\ validateMultiChoice(call.arg.question, call.arg.value) # <<>>
  /\ call.ret.isValid

\* C26: for a slider question and a number v, validateAnswer is valid
\* exactly when min <= v <= max and otherwise returns the one error
\* 'out-of-range'; no stored slider answer that is a number lies outside
\* the bounds of its question.
C26_SliderRangeInclusive ==
  /\ (/\ call.op = "submitAnswer"
      /\ getCurrentQuestion(PreM).type = "slider"
      /\ call.arg.t = "number")
     => LET question == getCurrentQuestion(PreM)
        IN /\ call.ret = validateAnswer(question, call.arg)
           /\ call.ret.isValid
              <=> (question.min <= call.arg.n /\ call.arg.n <= question.max)
           /\ ~call.ret.isValid
              => call.ret.errors = <<Error(question.id, "out-of-range")>>
  /\ \A i \in 1..Len(quiz.questions) :
       LET question == quiz.questions[i]
       IN (/\ question.type = "slider"
           /\ question.id \in DOMAIN state.answers
           /\ state.answers[question.id].value.t = "number")
          => /\ question.min <= state.answers[question.id].value.n
             /\ state.answers[question.id].value.n <= question.max

\* the slider's answer at its lower bound was replaced by its upper bound
C26_Witness ==
  /\ call.op = "submitAnswer"
  /\ getCurrentQuestion(PreM).type = "slider"
  /\ call.arg = Num(getCurrentQuestion(PreM).max)
  /\ AnswerValue(call.pre.state, getCurrentQuestion(PreM).id)
       = Num(getCurrentQuestion(PreM).min)
  /\ getCurrentQuestion(PreM).min < getCurrentQuestion(PreM).max
  /\ call.ret.isValid
  /\ AnswerValue(state, getCurrentQuestion(PreM).id) = call.arg

\* a number above the upper bound was refused and the stored answer kept
AboveRangeReached ==
  /\ call.op = "submitAnswer"
  /\ getCurrentQuestion(PreM).type = "slider"
  /\ call.arg = Num(getCurrentQuestion(PreM).max + 1)
  /\ ~call.ret.isValid
  /\ AnswerValue(state, getCurrentQuestion(PreM).id)
       = Num(getCurrentQuestion(PreM).max)

\* the last call scored the answers the engine held
Scored == call.op \in {"calculateResults", "complete"}

\* the contributions of the answer stored for question i, none when the
\* question has no stored answer
ContributionsOfQuestion(i, st) ==
  IF quiz.questions[i].id \in DOMAIN st.answers
  THEN getScoreContributionsFromAnswer(quiz.questions[i],
                                       st.answers[quiz.questions[i].id].value)
  ELSE <<>>

\* the sum of value * weight, the weight 1 when absent, over the
\* contributions to the category of every stored answer whose question is in
\* the quiz
ExpectedScore(category, st) ==
  SumSeq([i \in 1..Len(quiz.questions) |->
            LET contribs == ContributionsOfQuestion(i, st)
            IN SumSeq([k \in 1..Len(contribs) |->
                         IF contribs[k].category = category
                         THEN contribs[k].value
                              * (IF contribs[k].weight = Undefined THEN 1
                                 ELSE contribs[k].weight.n)
                         ELSE 0])])

ScoredCategories ==
  {WarCategories[i] : i \in 1..Len(WarCategories)}
  \cup {MaskCategories[i] : i \in 1..Len(MaskCategories)}
  \cup {quiz.scoring.categories[i].id : i \in 1..Len(quiz.scoring.categories)}

\* C27: the score map has one entry for every configured category, every
\* score in it is the sum of value * weight over the contributions of the
\* stored answers whose question is in the quiz (0 without contributions),
\* and the contribution trail has, for every such answer with contributions,
\* one entry that lists them.
C27_ScoresAreSums ==
  Scored
  => LET scores == call.ret.scores
         trail == call.ret.contributions
         st == call.pre.state
     IN /\ \A i \in 1..Len(quiz.scoring.categories) :
             HasKey(scores, quiz.scoring.categories[i].id)
        /\ \A i, j \in 1..Len(scores) : scores[i][1] = scores[j][1] => i = j
        /\ \A i \in 1..Len(scores) : scores[i][2] = ExpectedScore(scores[i][1], st)
        /\ \A category \in ScoredCategories :
             ScoreOf(scores, category) = ExpectedScore(category, st)
        /\ \A i \in 1..Len(quiz.questions) :
             ContributionsOfQuestion(i, st) # <<>>
             => \E k \in 1..Len(trail) :
                  /\ trail[k].questionId = quiz.questions[i].id
                  /\ trail[k].categories = ContributionsOfQuestion(i, st)
                  /\ \A other \in 1..Len(trail) :
                       trail[other].questionId = trail[k].questionId => other = k
        /\ \A k \in 1..Len(trail) :
             \E i \in 1..Len(quiz.questions) :
               /\ trail[k].questionId = quiz.questions[i].id
               /\ trail[k].categories = ContributionsOfQuestion(i, st)
               /\ trail[k].categories # <<>>

\* two answers contributed to one category, one of them twice and one with
\* a negative value, while an answer of no question of the quiz was stored
\* and a configured category got nothing
C27_Witness ==
  /\ call.op = "calculateResults"
  /\ QId(0) \in DOMAIN call.pre.state.answers
  /\ AnswerValue(call.pre.state, QId(1)) = Two
  /\ AnswerValue(call.pre.state, QId(2)) = Two
  /\ ScoreOf(call.ret.scores, "abandonment") = 1
  /\ ScoreOf(call.ret.scores, "exposure") = 1
  /\ HasKey(call.ret.scores, "armored")
  /\ Len(call.ret.contributions) >= 2

\* a weighted contribution was scored with its weight
WeightedReached ==
  /\ call.op = "calculateResults"
  /\ DOMAIN call.pre.state.answers = {QId(1)}
  /\ AnswerValue(call.pre.state, QId(1)) = One
  /\ ScoreOf(call.ret.scores, "exposure") = 2
  /\ ScoreOf(call.ret.scores, "abandonment") = 1
  /\ ScoreOf(call.ret.scores, "flooded") = 0

\* the entries of the score map with a positive score
PositiveEntries == {i \in 1..Len(call.ret.scores) : call.ret.scores[i][2] > 0}

\* the entry of highest score among the entries S, the first in the
\* iteration order of the score map among those of equal score
BestEntry(S) ==
  CHOOSE i \in S :
    \A j \in S :
      \/ call.ret.scores[j][2] < call.ret.scores[i][2]
      \/ (call.ret.scores[j][2] = call.ret.scores[i][2] /\ i <= j)

\* C28: the primary dimension is the category of highest positive score and
\* the secondary the category of highest positive score among the others,
\* the first in category-iteration order among equal scores; a category of
\* score 0 or less is neither, and there is a secondary exactly when two or
\* more categories have a positive score.
C28_PrimaryAndSecondary ==
  Scored
  => LET scores == call.ret.scores
         primary == call.ret.primary
         secondary == call.ret.secondary
     IN /\ secondary # <<>> <=> Cardinality(PositiveEntries) >= 2
        /\ Len(secondary) <= 1
        /\ PositiveEntries = {}
           => \A i \in 1..Len(scores) : scores[i][1] # primary.category
        /\ PositiveEntries # {}
           => LET first == BestEntry(PositiveEntries)
              IN /\ primary.category = scores[first][1]
                 /\ primary.score = scores[first][2]
                 /\ primary.score > 0
                 /\ secondary # <<>>
                    => LET second == BestEntry(PositiveEntries \ {first})
                       IN /\ secondary[1].category = scores[second][1]
                          /\ secondary[1].score = scores[second][2]
                          /\ secondary[1].score > 0
                          /\ secondary[1].score <= primary.score

\* three categories are positive, the two behind the first have the same
\* score, and a configured category has score 0: the secondary is the
\* earlier of the two
C28_Witness ==
  /\ Scored
  /\ ScoreOf(call.ret.scores, "exposure") = 2
  /\ ScoreOf(call.ret.scores, "abandonment") = 1
  /\ ScoreOf(call.ret.scores, "flooded") = 1
  /\ ScoreOf(call.ret.scores, "armored") = 0
  /\ HasKey(call.ret.scores, "armored")
  /\ Cardinality(PositiveEntries) = 3
  /\ call.ret.primary.category = "exposure"
  /\ call.ret.secondary # <<>>
  /\ call.ret.secondary[1].category = "abandonment"

\* every positive category has the same score and one category is negative
AllTiedReached ==
  /\ Scored
  /\ Cardinality(PositiveEntries) >= 3
  /\ \A i, j \in PositiveEntries : call.ret.scores[i][2] = call.ret.scores[j][2]
  /\ \E i \in 1..Len(call.ret.scores) : call.ret.scores[i][2] < 0
  /\ call.ret.primary.category = call.ret.scores[1][1]

\* a single category is positive: there is no secondary
SinglePositiveReached ==
  /\ Scored
  /\ Cardinality(PositiveEntries) = 1
  /\ call.ret.secondary = <<>>
  /\ call.ret.primary.score > 0

\* C29: scoring a state without answers gives, for every scoring type, a
\* score of 0 for every category, the primary dimension 'unknown' with
\* score 0, no secondary dimension and the result key 'unknown'; so does
\* complete() on an engine that was just started.
C29_NoAnswersScoreUnknown ==
  (Scored /\ call.pre.state.answers = EmptyMap)
  => /\ \A i \in 1..Len(call.ret.scores) : call.ret.scores[i][2] = 0
     /\ \A i \in 1..Len(quiz.scoring.categories) :
          HasKey(call.ret.scores, quiz.scoring.categories[i].id)
     /\ call.ret.primary = [category |-> "unknown", score |-> 0]
     /\ call.ret.secondary = <<>>
     /\ call.ret.resultKey = "unknown"

\* the same for the scoring types other than composite
NoAnswersScoreUnknownUnlessComposite ==
  (Scored /\ call.pre.state.answers = EmptyMap /\ quiz.scoring.type # "composite")
  => /\ \A i \in 1..Len(call.ret.scores) : call.ret.scores[i][2] = 0
     /\ call.ret.primary = [category |-> "unknown", score |-> 0]
     /\ call.ret.secondary = <<>>
     /\ call.ret.resultKey = "unknown"

\* the scores, the primary and the secondary dimension of a state without
\* answers under composite scoring
NoAnswersDimensionsUnknown ==
  (Scored /\ call.pre.state.answers = EmptyMap)
  => /\ \A i \in 1..Len(call.ret.scores) : call.ret.scores[i][2] = 0
     /\ call.ret.primary = [category |-> "unknown", score |-> 0]
     /\ call.ret.secondary = <<>>

\* complete() on an engine without answers, under a scoring type other
\* than composite, returned the key 'unknown'
StartedThenCompletedReached ==
  /\ call.op = "complete"
  /\ call.pre.state.answers = EmptyMap
  /\ quiz.scoring.type = "threshold"
  /\ call.ret.resultKey = "unknown"

\* the categories of a fixed list with a positive score, as positions
PositiveIn(categories) ==
  {i \in 1..Len(categories) : ScoreOf(call.ret.scores, categories[i]) > 0}

\* the category of highest score of a fixed list, the earlier in the list
\* among equal scores
TopOf(categories) ==
  categories[CHOOSE i \in 1..Len(categories) :
               \A j \in 1..Len(categories) :
                 \/ ScoreOf(call.ret.scores, categories[j])
                      < ScoreOf(call.ret.scores, categories[i])
                 \/ (ScoreOf(call.ret.scores, categories[j])
                       = ScoreOf(call.ret.scores, categories[i]) /\ i <= j)]

\* the key of the highest-wins rule
HighestWinsKey ==
  IF call.ret.secondary # <<>>
  THEN call.ret.primary.category \o "-" \o call.ret.secondary[1].category
  ELSE call.ret.primary.category

\* C30: under composite scoring without ground zero the result key is
\* '<war>-<mask>', each part the category of highest score of its fixed
\* list (the earlier one among equal scores), when both lists have a
\* category of positive score; otherwise it is the key of the highest-wins
\* rule.
C30_CompositeKey ==
  (Scored /\ quiz.scoring.type = "composite" /\ ~call.ret.isGroundZero)
  => IF PositiveIn(WarCategories) # {} /\ PositiveIn(MaskCategories) # {}
     THEN call.ret.resultKey = TopOf(WarCategories) \o "-" \o TopOf(MaskCategories)
     ELSE call.ret.resultKey = HighestWinsKey

\* the same when both lists have a category of positive score
CompositeKeyOfPositiveLists ==
  (/\ Scored
   /\ quiz.scoring.type = "composite"
   /\ ~call.ret.isGroundZero
   /\ PositiveIn(WarCategories) # {}
   /\ PositiveIn(MaskCategories) # {})
  => call.ret.resultKey = TopOf(WarCategories) \o "-" \o TopOf(MaskCategories)

\* two masks have the same positive score: the key names the one that is
\* earlier in the mask list, which is later in the score map
CompositeTieReached ==
  /\ Scored
  /\ quiz.scoring.type = "composite"
  /\ ~call.ret.isGroundZero
  /\ ScoreOf(call.ret.scores, "flooded") = ScoreOf(call.ret.scores, "armored")
  /\ ScoreOf(call.ret.scores, "flooded") > 0
  /\ PositiveIn(WarCategories) # {}
  /\ call.ret.resultKey = TopOf(WarCategories) \o "-" \o "flooded"

\* a result was ground zero under composite scoring
GroundZeroReached ==
  /\ Scored
  /\ quiz.scoring.type = "composite"
  /\ call.ret.isGroundZero
  /\ call.ret.resultKey = "ground-zero"

\* the scores of the war categories that are at least minScore, as a set of
\* positions in the war list; a category without an entry has score 0
Qualifying ==
  {i \in 1..Len(WarCategories) :
     ScoreOf(call.arg, WarCategories[i]) >= quiz.scoring.groundZeroThreshold.minScore}

\* C31: without a ground-zero configuration checkGroundZero is false; with
\* one it is true exactly when at least minCategories of the four war
\* categories have a score of at least minScore and no two of those scores
\* differ by more than maxSpread.
C31_GroundZero ==
  call.op = "checkGroundZero"
  => IF ~quiz.scoring.groundZeroThreshold.present THEN call.ret = FALSE
     ELSE call.ret
          <=> /\ Cardinality(Qualifying) >= quiz.scoring.groundZeroThreshold.minCategories
              /\ \A i, j \in Qualifying :
                   ScoreOf(call.arg, WarCategories[i]) - ScoreOf(call.arg, WarCategories[j])
                     <= quiz.scoring.groundZeroThreshold.maxSpread

\* the scores 4, 3, 3 and 1 under {minCategories: 3, maxSpread: 2,
\* minScore: 3}: three categories qualify, their spread is 1, the spread of
\* all four is 3
C31_Witness ==
  /\ call.op = "checkGroundZero"
  /\ call.arg = <<<<"abandonment", 4>>, <<"exposure", 3>>, <<"entrapment", 3>>,
                  <<"erasure", 1>>>>
  /\ quiz.scoring.groundZeroThreshold
       = [present |-> TRUE, minCategories |-> 3, maxSpread |-> 2, minScore |-> 3]
  /\ Cardinality(Qualifying) = 3
  /\ call.ret = TRUE

\* no category qualifies and none is asked for: the flag is true
NoneQualifyingReached ==
  /\ call.op = "checkGroundZero"
  /\ quiz.scoring.groundZeroThreshold.present
  /\ quiz.scoring.groundZeroThreshold.minCategories = 0
  /\ Qualifying = {}
  /\ call.ret = TRUE

\* categories without an entry qualify with the score 0
AbsentQualifiesReached ==
  /\ call.op = "checkGroundZero"
  /\ call.arg = <<>>
  /\ quiz.scoring.groundZeroThreshold.present
  /\ Cardinality(Qualifying) = 4
  /\ call.ret = TRUE

\* enough categories qualify and their spread is too large
SpreadTooLargeReached ==
  /\ call.op = "checkGroundZero"
  /\ quiz.scoring.groundZeroThreshold.present
  /\ Cardinality(Qualifying) >= quiz.scoring.groundZeroThreshold.minCategories
  /\ Qualifying # {}
  /\ call.ret = FALSE

\* the keys the composite rule can build: a war and a mask category
CompositeKeys ==
  {WarCategories[i] \o "-" \o MaskCategories[j] :
     i \in 1..Len(WarCategories), j \in 1..Len(MaskCategories)}

\* C32: the result key is 'ground-zero' whenever the ground-zero flag of the
\* result is true, under every scoring type and whatever the dimensions
\* are; when the flag is false the key is built from category ids, by the
\* highest-wins rule or, under composite scoring, as a war and a mask.
C32_GroundZeroOverrides ==
  Scored
  => /\ call.ret.isGroundZero = checkGroundZero(call.ret.scores)
     /\ IF call.ret.isGroundZero THEN call.ret.resultKey = "ground-zero"
        ELSE \/ call.ret.resultKey = HighestWinsKey
             \/ /\ quiz.scoring.type = "composite"
                /\ call.ret.resultKey \in CompositeKeys

\* a result with a primary and a secondary dimension is ground zero under a
\* scoring type that is not composite
C32_Witness ==
  /\ Scored
  /\ quiz.scoring.type = "highest-wins"
  /\ call.ret.isGroundZero
  /\ call.ret.secondary # <<>>
  /\ call.ret.primary.score > call.ret.secondary[1].score
  /\ call.ret.resultKey = "ground-zero"

\* a ground-zero configuration is present and the result is not ground zero
NotGroundZeroReached ==
  /\ Scored
  /\ quiz.scoring.groundZeroThreshold.present
  /\ ~call.ret.isGroundZero
  /\ call.ret.primary.score > 0
  /\ call.ret.resultKey # "ground-zero"

PrimaryAloneReached ==
  /\ Scored
  /\ quiz.scoring.type = "spectrum"
  /\ ~call.ret.isGroundZero
  /\ call.ret.secondary = <<>>
  /\ call.ret.primary.score > 0
  /\ call.ret.resultKey = call.ret.primary.category

\* C34: two runs of calculateResults on the same quiz and the same state,
\* one after the other with any time between them, return the same result
\* in every field, and a run leaves the state it is given as it is.
C34_ScoringIsDeterministic ==
  [][/\ (call.op = "calculateResults" /\ call'.op = "calculateResults"
         /\ state' = state)
        => call'.ret = call.ret
     /\ call'.op = "calculateResults" => state' = state]_vars

\* the same for every field of the result but the timestamp
DeterministicButTimestamp ==
  [][/\ (call.op = "calculateResults" /\ call'.op = "calculateResults"
         /\ state' = state)
        => [call'.ret EXCEPT !.timestamp = NoDate]
             = [call.ret EXCEPT !.timestamp = NoDate]
     /\ call'.op = "calculateResults" => state' = state]_vars

\* a state with contributions was scored after the clock had advanced
ScoredLaterReached ==
  /\ call.op = "calculateResults"
  /\ now > 0
  /\ call.ret.timestamp = Date(now)
  /\ call.ret.contributions # <<>>

\* C35: an auto-advance that fires directly after start() or restart(), and
\* so was scheduled by a submitAnswer of an earlier attempt, leaves the
\* cursor of the new attempt at position 0.
C35_StaleAutoAdvanceIgnored ==
  [][(call.op \in {"start", "restart"} /\ call'.op = "autoAdvance")
       => state'.currentQuestionIndex = 0]_vars

\* the deferred next() of the earlier attempt moved the cursor of an attempt
\* without answers
StaleAdvanceReached ==
  /\ call.op = "autoAdvance"
  /\ call.pre.state.answers = EmptyMap
  /\ call.pre.state.currentQuestionIndex = 0
  /\ state.currentQuestionIndex > 0

\* C36: in an attempt with a submitted answer, a deferred next() that moves
\* the cursor moves it off a question for which an answer was submitted, so
\* that repeated submissions and a manual next() together advance the cursor
\* by one visible question for each answered question.
C36_AutoAdvanceOncePerAnswer ==
  (/\ call.op = "autoAdvance"
   /\ call.pre.state.answers # EmptyMap
   /\ state.currentQuestionIndex # call.pre.state.currentQuestionIndex)
    => getCurrentQuestion(PreM).id \in DOMAIN call.pre.state.answers

\* two deferred next() calls were pending at once in an attempt whose first
\* question is answered
TwoPendingReached ==
  /\ timers = 2
  /\ state.currentQuestionIndex = 0
  /\ DOMAIN state.answers = {QId(1)}

\* the persisted snapshot holds the engine's state and question order
SnapshotIsCurrent ==
  /\ storage.present
  /\ Parses(storage)
  /\ storage.state = JsonState(state)
  /\ storage.questionOrder = questionOrder

\* C37: with persistAnswers enabled, after start, submitAnswer, next,
\* previous, goToQuestion, skip or setMetadata has changed the state of an
\* attempt in progress, the persisted snapshot holds the engine's state and
\* question order.
C37_SnapshotFollowsEngine ==
  (/\ config.persistAnswers
   /\ call.op \in {"start", "submitAnswer", "next", "previous", "goToQuestion",
                   "skip", "setMetadata"}
   /\ state.completedAt = NoDate
   /\ state # call.pre.state)
    => SnapshotIsCurrent

\* the same for the operations that call saveProgress
SnapshotFollowsSavingCalls ==
  (/\ config.persistAnswers
   /\ call.op \in {"submitAnswer", "next", "previous", "skip", "setMetadata"}
   /\ state.completedAt = NoDate
   /\ state # call.pre.state)
    => SnapshotIsCurrent

\* goToQuestion moved the cursor and the snapshot still holds the old one
JumpNotSavedReached ==
  /\ config.persistAnswers
  /\ call.op = "goToQuestion"
  /\ call.ret = TRUE
  /\ storage.present
  /\ storage.state.currentQuestionIndex # state.currentQuestionIndex

\* start() reset the attempt and the snapshot still holds the answers of the
\* attempt before
StartNotSavedReached ==
  /\ config.persistAnswers
  /\ call.op = "start"
  /\ state.answers = EmptyMap
  /\ storage.present
  /\ storage.state.answers # EmptyMap

\* C38: from the return of complete() until start() or restart() begins a
\* new attempt, that is while state.completedAt is set, no snapshot is
\* persisted.
C38_NoSnapshotAfterComplete ==
  state.completedAt # NoDate => ~storage.present

\* complete() itself leaves no snapshot
CompleteLeavesNoSnapshot ==
  call.op = "complete" => ~storage.present

\* a call after complete() wrote the completed attempt to the storage
CompletedSnapshotReached ==
  /\ call.op \in {"submitAnswer", "next", "previous", "setMetadata"}
  /\ call.pre.state.completedAt # NoDate
  /\ ~call.pre.storage.present
  /\ storage.present
  /\ storage.state.completedAt # JsonDate(NoDate)

\* the questions with a stored answer that are hidden against the answers
\* of the state
HiddenAnswered(st) ==
  {i \in 1..Len(quiz.questions) :
     /\ quiz.questions[i].id \in DOMAIN st.answers
     /\ ~IsVisible(quiz.questions[i], st)}

\* C39: complete() scores the stored answers of hidden questions like those
\* of visible ones: every category score is the sum over all stored answers,
\* the contribution trail lists the contributions of every hidden answer
\* that has some, and the composite key is built from these scores, while
\* progress counts visible questions only and completeness looks at the
\* visible required questions only.
C39_ScoringIgnoresVisibility ==
  call.op = "complete"
  => LET st == call.pre.state
         scores == call.ret.scores
         trail == call.ret.contributions
         V == Cardinality(VisibleNow)
         A == Cardinality(AnsweredNow)
     IN /\ \A category \in ScoredCategories :
             ScoreOf(scores, category) = ExpectedScore(category, st)
        /\ \A i \in HiddenAnswered(st) :
             ContributionsOfQuestion(i, st) # <<>>
             => \E k \in 1..Len(trail) :
                  /\ trail[k].questionId = quiz.questions[i].id
                  /\ trail[k].categories = ContributionsOfQuestion(i, st)
        /\ call.ret.resultKey = TopOf(WarCategories) \o "-" \o TopOf(MaskCategories)
        /\ getProgress(Machine) = IF V = 0 THEN 100 ELSE RoundPercent(A, V)
        /\ isComplete(Machine)
           <=> \A i \in VisibleRequired :
                 ~isEmpty(AnswerValue(state, quiz.questions[i].id))

\* the first question was answered "1", then hidden by the answer "2" of the
\* last question, and complete() counted its contribution: the key names
\* its category although progress is 50 over the two visible questions
C39_Witness ==
  /\ call.op = "complete"
  /\ AnswerValue(call.pre.state, QId(1)) = One
  /\ AnswerValue(call.pre.state, QId(NumQuestions)) = Two
  /\ HiddenAnswered(call.pre.state) = {1}
  /\ ScoreOf(call.ret.scores, "abandonment") = 1
  /\ ScoreOf(call.ret.scores, "flooded") = 2
  /\ call.ret.resultKey = "abandonment-flooded"
  /\ Len(call.ret.contributions) = 2
  /\ getProgress(Machine) = 50

\* the number of times the handler is in the list
Subscriptions(handlers, handler) ==
  Cardinality({i \in 1..Len(handlers) : handlers[i] = handler})

\* the number of times the last call handed the event to the handler
Deliveries(event, handler) ==
  Cardinality({i \in 1..Len(call.delivered) :
                 call.delivered[i] = [handler |-> handler, event |-> event]})

\* an unsubscribe function called between two calls of the engine removes
\* the first subscription of its handler, and nothing when there is none
UnsubscribeRemovesOne ==
  call.op = "unsubscribe"
  => LET before == call.pre.handlers[call.arg[1]]
         index == IndexOf(before, call.arg[2])
     IN /\ eventHandlers
             = [call.pre.handlers EXCEPT ![call.arg[1]] =
                  IF index = 0 THEN before
                  ELSE SubSeq(before, 1, index - 1)
                       \o SubSeq(before, index + 1, Len(before))]
        /\ call.delivered = <<>>

\* an event is handed only to handlers subscribed to its type when the call
\* began: a handler that was removed before gets no later event
OnlySubscribedAreCalled ==
  \A i \in 1..Len(call.delivered) :
    Subscriptions(call.pre.handlers[call.delivered[i].event.type],
                  call.delivered[i].handler) > 0

\* C40: when handlers unsubscribe while an event is delivered, every handler
\* that is subscribed to the type of the event when the call returns was
\* called for it once for each subscription it has; a handler that was
\* removed gets no later event, and an unsubscribe function whose handler is
\* not subscribed removes nothing.
C40_UnsubscribeDuringDelivery ==
  /\ call.op \in {"next", "previous", "goToQuestion"}
     => \A i \in 1..Len(call.emitted) :
          \A handler \in DeliveryHandlers :
            Subscriptions(eventHandlers[call.emitted[i].type], handler) > 0
            => Deliveries(call.emitted[i], handler)
                 = Subscriptions(eventHandlers[call.emitted[i].type], handler)
  /\ UnsubscribeRemovesOne
  /\ OnlySubscribedAreCalled

\* the handler subscribed after the one that unsubscribed itself was not
\* called for the event and is still subscribed
SkippedHandlerReached ==
  /\ call.op = "next"
  /\ call.ret = TRUE
  /\ call.pre.handlers["quiz:navigation"] = <<"leaver", "observer">>
  /\ eventHandlers["quiz:navigation"] = <<"observer">>
  /\ Len(call.delivered) = 1
  /\ call.delivered[1].handler = "leaver"

\* an unsubscribe function was called a second time and removed nothing
SecondUnsubscribeReached ==
  /\ call.op = "unsubscribe"
  /\ call.pre.handlers["quiz:navigation"] = <<"leaver">>
  /\ call.arg[2] = "observer"
  /\ eventHandlers = call.pre.handlers

====
